---- MODULE Spec2Model ----
(***************************************************************************)
(* ch-backup: the backup/restore orchestrator (ch_backup/backup.py), its   *)
(* deduplication resolver and the storage it reads and writes.             *)
(*                                                                         *)
(* A backup run is one call of ClickhouseBackup.backup, cut into steps at  *)
(* the calls it makes to its collaborators; a restore is one call of       *)
(* ClickhouseBackup.restore, cut the same way.  Transfers submitted by     *)
(* save_part_data / download_part_data complete asynchronously and are     *)
(* joined by wait().                                                       *)
(***************************************************************************)
EXTENDS Integers, Sequences, FiniteSets, TLC

(***************************************************************************)
(* Bounds                                                                  *)
(***************************************************************************)
\* Number of backup runs started in one behaviour.
MaxRuns == 3
\* Number of outside changes and raised faults in one behaviour.
MaxEvents == 1
\* Number of jobs submitted to the execution pool in one behaviour.
MaxJobs == 3
\* Number of collecting calls (wait_all, as_completed) in one behaviour.
MaxCollects == 2
\* Number of multipart operations of the S3 engine in one behaviour.
MaxS3Ops == 5
\* Number of multipart uploads created in one behaviour.
MaxUploads == 2
\* Largest reading of the clock of the S3 engine.
MaxClock == 1
\* Longest list of remote paths given to a bulk delete.
MaxPaths == 3
\* Most pages that a listing takes.
MaxPages == 2
\* DEFAULT_CONFIG['storage']['bulk_delete_chunk_size'], scaled down.
bulk_delete_chunk_size == 2

(***************************************************************************)
(* The database instance that is backed up                                 *)
(***************************************************************************)
NoLink == 0
NoTime == 0
DedupAgeLimit == 3

AllDatabases == <<"db1", "db2">>

TablesOrdered(db) == IF db = "db1" THEN <<"t1", "t2">> ELSE <<>>

PartNames(db, table) == IF table = "t1" THEN <<"p1", "p2">> ELSE <<"p1">>

RECURSIVE SeqToSet(_)
SeqToSet(s) == IF s = <<>> THEN {} ELSE {Head(s)} \cup SeqToSet(Tail(s))

PartKeys ==
    { <<db, t, p>> : db \in SeqToSet(AllDatabases), t \in {"t1", "t2"}, p \in {"p1", "p2"} }

LiveKeys ==
    { k \in PartKeys : /\ k[2] \in SeqToSet(TablesOrdered(k[1]))
                       /\ k[3] \in SeqToSet(PartNames(k[1], k[2])) }

\* What a part's row of system.parts and its checksums file say about it.
ContentA == [checksum |-> "abc", size |-> 2, files |-> <<"f1", "f2">>, rows |-> 2]
ContentB == [checksum |-> "def", size |-> 1, files |-> <<"f1">>, rows |-> 1]
ContentC == [checksum |-> "abc", size |-> 3, files |-> <<"f1", "f2">>, rows |-> 2]
Contents == {ContentA, ContentB, ContentC}

\* backup(databases=None): get_all_databases() names every database of the instance.
DbSelections == {AllDatabases}

VARIABLES
    now,                \* the wall clock (datetime.utcnow)
    events,             \* number of outside changes and of raised faults so far
    chData,             \* live parts of the database instance: key -> content
    objects,            \* objects present in the storage backend
    metaStore,          \* persisted backup metadata documents: name -> document
    runs,               \* number of backup runs started; the current run's name
    pc,                 \* position of the backup run
    failedAt,           \* the step of the run that raised, "none" otherwise
    deduplicate_parts,  \* config['deduplicate_parts']
    existing_backups,   \* self._existing_backups
    backup_meta,        \* the run's ClickhouseBackupStructure
    databases,          \* the databases the run was asked for
    dbIdx,              \* loop index of backup(): databases[dbIdx]
    tables,             \* tables of the current database
    tblIdx,             \* loop index of backup_database(): tables[tblIdx]
    parts_rows,         \* parts enumerated for the current table
    partIdx,            \* loop index over parts_rows
    outstanding,        \* transfers submitted and not yet finished
    transferFailed,     \* some transfer of the current batch failed
    savedParts,         \* the run's calls of save_part_data, in order
    shadow,             \* tables whose frozen data lies in the shadow directory
    rpc,                \* position of the restore
    r_backup_meta,      \* the ClickhouseBackupStructure restore() loaded
    r_databases,        \* the databases restore() iterates over
    r_dbIdx,            \* loop index of restore(): r_databases[r_dbIdx]
    r_sqlIdx,           \* loop index over the database's table sql paths
    r_tblIdx,           \* loop index over the database's tables
    r_partIdx,          \* loop index over the table's parts
    attach_parts,       \* restore_database's attach_parts list
    missed_logged,      \* database names the critical log message named
    restored_sql,       \* restore_meta calls made, in order (by sql path)
    downloading,        \* downloads submitted and not yet finished
    downloadFailed,     \* some download of the current batch failed
    detached,           \* parts present in the detached directories
    chowned,            \* tables whose detached directory was chowned
    attached,           \* attach_part calls made, in order
    futures,            \* the executor's futures, by number: "running", "ok", "failed"
    future_to_job,      \* ExecPool._future_to_job: future -> Job
    collect,            \* the collecting call in progress
    collects,           \* number of collecting calls begun
    results,            \* results the collecting call yielded to its caller, in order
    callbacks,          \* futures whose job callback was run, in order
    outcome,            \* how the last collecting call ended
    lastSubmit,         \* the last submit call: its job id and whether it raised
    scope,              \* where the `with ExecPool(...)` statement is
    body_exc,           \* the body of the with statement raised
    shutdowns,          \* calls of ExecPool.shutdown, in order
    executor_down,      \* the executor has been shut down
    propagated,         \* the exception that left the with statement
    _multipart_uploads,   \* S3StorageEngine._multipart_uploads: upload id -> session
    _multipart_downloads, \* S3StorageEngine._multipart_downloads: download id -> response
    s3time,             \* time.time() as the S3 engine reads it
    s3,                 \* the object store: upload ids issued, parts and completions received
    s3op,               \* the last operation of the S3 engine and how it ended
    s3ops,              \* number of multipart operations of the S3 engine so far
    retry_state,        \* the call of a function wrapped by util.retry
    init_pc,            \* where ExecPool.__init__ is: "new", "blocked", "returned", "raised"
    warmup,             \* the future of ExecPool._start: "none", "running", "done", "failed"
    raw_input,          \* the dict given to PartMetadata.load
    frozen_input,       \* the FrozenPart given to PartMetadata.from_frozen_part
    loaded,             \* the last PartMetadata made, and by which call
    fs,                 \* the directories that exist on the database host
    freezed_parts,      \* the parts the last freeze_table returned
    ctl_op              \* the last removal call of ClickhouseCTL and how it ended

backupVars ==
    <<now, events, chData, objects, metaStore, runs, pc, failedAt,
      deduplicate_parts, existing_backups, backup_meta, databases, dbIdx, tables,
      tblIdx, parts_rows, partIdx, outstanding, transferFailed, savedParts, shadow>>

restoreVars ==
    <<rpc, r_backup_meta, r_databases, r_dbIdx, r_sqlIdx, r_tblIdx, r_partIdx,
      attach_parts, missed_logged, restored_sql, downloading, downloadFailed, detached,
      chowned, attached>>

poolVars ==
    <<futures, future_to_job, collect, collects, results, callbacks, outcome, lastSubmit>>

scopeVars == <<scope, body_exc, shutdowns, executor_down, propagated>>

engineVars == <<_multipart_uploads, _multipart_downloads, s3time, s3, s3op, s3ops>>

constructVars == <<init_pc, warmup>>

metadataVars == <<raw_input, frozen_input, loaded>>

controlVars == <<fs, freezed_parts, ctl_op>>

auxVars ==
    <<scopeVars, engineVars, retry_state, constructVars, metadataVars, controlVars>>

\* The variables that the steps of the with statement leave alone.
outsideScope ==
    <<backupVars, restoreVars, engineVars, retry_state, constructVars, metadataVars,
      controlVars>>

\* The variables that the steps of the S3 engine leave alone.
outsideEngine ==
    <<backupVars, restoreVars, poolVars, scopeVars, retry_state, constructVars,
      metadataVars, controlVars>>

\* The variables that the steps of a retried call leave alone.
outsideRetry ==
    <<backupVars, restoreVars, poolVars, scopeVars, engineVars, constructVars,
      metadataVars, controlVars>>

\* The variables that the steps of ExecPool's construction leave alone.
outsideConstruct ==
    <<backupVars, restoreVars, scopeVars, engineVars, retry_state, metadataVars,
      controlVars>>

\* The variables that the making of a PartMetadata leaves alone.
outsideMetadata ==
    <<backupVars, restoreVars, poolVars, scopeVars, engineVars, retry_state, constructVars,
      controlVars>>

\* The variables that the calls of ClickhouseCTL leave alone.
outsideControl ==
    <<backupVars, restoreVars, poolVars, scopeVars, engineVars, retry_state, constructVars,
      metadataVars>>

vars == <<backupVars, restoreVars, poolVars, auxVars>>

(***************************************************************************)
(* Storage layout                                                          *)
(***************************************************************************)
\* config['path_root']: the storage prefix under which backups are kept.
PathRoot == 100

\* os.path.join(path_root, backup_name)
BackupPath(name) == PathRoot + name

PartFilePath(name, db, table, part, file) == <<name, db, table, part, file>>

TableSqlPath(name, db, table) == <<name, db, table, "-", "sql">>

DatabaseSqlPath(name, db) == <<name, db, "-", "-", "sql">>

path_exists(path) == path \in objects

meta_path_exists(name) == name \in DOMAIN metaStore

\* Backup paths found under the storage root, in listing order.
RECURSIVE NamesUpTo(_)
NamesUpTo(n) ==
    IF n = 0 THEN <<>>
    ELSE LET rest == NamesUpTo(n - 1)
         IN  IF n \in DOMAIN metaStore \/ \E o \in objects : o[1] = n
             THEN Append(rest, n) ELSE rest

get_existing_backups_names == NamesUpTo(MaxRuns + 1)

list == get_existing_backups_names

(***************************************************************************)
(* ClickhouseBackupStructure                                               *)
(***************************************************************************)
EmptyMeta ==
    [name |-> 0, path |-> 0, start_time |-> NoTime, end_time |-> NoTime,
     databases |-> <<>>, tables_sql |-> <<>>, db_sql |-> <<>>, parts |-> <<>>,
     rows |-> 0, bytes |-> 0, valid |-> TRUE]

add_database(meta, db) == [meta EXCEPT !.databases = Append(@, db)]

add_table_sql_path(meta, db, table, path) ==
    [meta EXCEPT !.tables_sql = Append(@, [database |-> db, table |-> table, path |-> path])]

set_db_sql_path(meta, db, path) ==
    [meta EXCEPT !.db_sql = Append(@, [database |-> db, path |-> path])]

add_part_contents(meta, db, table, part, paths, contents, link) ==
    [meta EXCEPT !.parts = Append(@,
        [database |-> db, table |-> table, name |-> part, paths |-> paths,
         checksum |-> contents.checksum, size |-> contents.size,
         files |-> contents.files, link |-> link])]

mark_start(meta) == [meta EXCEPT !.start_time = now]

mark_end(meta) == [meta EXCEPT !.end_time = now]

get_databases(meta) == meta.databases

HasPart(meta, db, table, part) ==
    \E i \in 1..Len(meta.parts) :
        /\ meta.parts[i].database = db
        /\ meta.parts[i].table = table
        /\ meta.parts[i].name = part

get_part_contents(meta, db, table, part) ==
    LET i == CHOOSE j \in 1..Len(meta.parts) :
                 /\ meta.parts[j].database = db
                 /\ meta.parts[j].table = table
                 /\ meta.parts[j].name = part
    IN  meta.parts[i]

(***************************************************************************)
(* Deduplication resolver                                                  *)
(***************************************************************************)
ClickhousePartInfo(db, table, part) ==
    LET c == chData[<<db, table, part>>]
    IN  [database |-> db, table |-> table, name |-> part, checksum |-> c.checksum,
         size |-> c.size, files |-> c.files, rows |-> c.rows, bytes |-> c.size]

get_contents(part_info) ==
    [checksum |-> part_info.checksum, size |-> part_info.size, files |-> part_info.files]

PartInfoNe(backup_part_info, part_info) ==
    \/ backup_part_info.checksum # part_info.checksum
    \/ backup_part_info.size # part_info.size
    \/ backup_part_info.files # part_info.files

\* _check_part_availability with its test inverted.
_check_part_availability_Inverted(part_info) ==
    LET failed_part_files == SelectSeq(part_info.paths, LAMBDA p : ~path_exists(p))
    IN  failed_part_files # <<>>

\* _check_part_availability that never asks the storage.
_check_part_availability_Unchecked(part_info) == TRUE

_check_part_availability(part_info) ==
    LET failed_part_files == SelectSeq(part_info.paths, LAMBDA p : ~path_exists(p))
    IN  failed_part_files = <<>>

DedupMiss == [link |-> NoLink, paths |-> <<>>]

\* IsLink for a resolver that does not skip links.
IsLink_Never(backup_part_info) == FALSE

IsLink(backup_part_info) == backup_part_info.link # NoLink

\* DedupScan that gives up at the first matching candidate with missing files.
RECURSIVE DedupScan_StopsAtMissing(_, _)
DedupScan_StopsAtMissing(backups, part_info) ==
    IF backups = <<>> THEN DedupMiss
    ELSE LET bm == Head(backups)
         IN  IF ~HasPart(bm, part_info.database, part_info.table, part_info.name)
             THEN DedupScan_StopsAtMissing(Tail(backups), part_info)
             ELSE LET bpi == get_part_contents(bm, part_info.database, part_info.table,
                                               part_info.name)
                  IN  IF IsLink(bpi) THEN DedupScan_StopsAtMissing(Tail(backups), part_info)
                      ELSE IF PartInfoNe(bpi, part_info)
                           THEN DedupScan_StopsAtMissing(Tail(backups), part_info)
                      ELSE IF _check_part_availability(bpi)
                           THEN [link |-> bm.path, paths |-> bpi.paths]
                      ELSE DedupMiss

RECURSIVE DedupScan(_, _)
DedupScan(backups, part_info) ==
    IF backups = <<>> THEN DedupMiss
    ELSE LET bm == Head(backups)
         IN  IF ~HasPart(bm, part_info.database, part_info.table, part_info.name)
             THEN DedupScan(Tail(backups), part_info)
             ELSE LET bpi == get_part_contents(bm, part_info.database, part_info.table,
                                               part_info.name)
                  IN  IF IsLink(bpi) THEN DedupScan(Tail(backups), part_info)
                      ELSE IF PartInfoNe(bpi, part_info)
                           THEN DedupScan(Tail(backups), part_info)
                      ELSE IF _check_part_availability(bpi)
                           THEN [link |-> bm.path, paths |-> bpi.paths]
                      ELSE DedupScan(Tail(backups), part_info)

\* _deduplicate_part for a resolver that never finds a part.
_deduplicate_part_Never(part_info) == DedupMiss

_deduplicate_part(part_info) == DedupScan(existing_backups, part_info)

\* list.sort(key=end_time, reverse=True): stable, newest first.
RECURSIVE InsertByEndTime(_, _)
InsertByEndTime(sorted, b) ==
    IF sorted = <<>> THEN <<b>>
    ELSE IF Head(sorted).end_time >= b.end_time
         THEN <<Head(sorted)>> \o InsertByEndTime(Tail(sorted), b)
         ELSE <<b>> \o sorted

\* SortByEndTime for a loader that leaves the listing order.
SortByEndTime_Unsorted(s) == s

RECURSIVE SortByEndTime(_)
SortByEndTime(s) ==
    IF s = <<>> THEN <<>>
    ELSE InsertByEndTime(SortByEndTime(SubSeq(s, 1, Len(s) - 1)), s[Len(s)])

\* AgeFilter for a loader that also keeps a backup that ended at the limit.
AgeFilter_Inclusive(meta, backup_age_limit) == meta.end_time >= backup_age_limit

AgeFilter(meta, backup_age_limit) == meta.end_time > backup_age_limit

RECURSIVE CollectBackups(_, _)
CollectBackups(backup_paths, backup_age_limit) ==
    IF backup_paths = <<>> THEN <<>>
    ELSE LET backup_name == Head(backup_paths)
             rest == CollectBackups(Tail(backup_paths), backup_age_limit)
         IN  IF ~meta_path_exists(backup_name) THEN rest
             ELSE IF AgeFilter(metaStore[backup_name], backup_age_limit)
                  THEN <<metaStore[backup_name]>> \o rest
                  ELSE rest

_load_existing_backups(backup_age_limit) ==
    SortByEndTime(CollectBackups(get_existing_backups_names, backup_age_limit))

\* ClickhouseBackupStructure.load_json raises InvalidBackupStruct on a document
\* it cannot decode.
load_json_raises(contents) == ~contents.valid

\* _load_backup_meta: the decode error is logged and raised again.
_load_backup_meta(backup_name) ==
    IF load_json_raises(metaStore[backup_name])
    THEN [raised |-> TRUE, meta |-> EmptyMeta]
    ELSE [raised |-> FALSE, meta |-> metaStore[backup_name]]

show(backup_name) == _load_backup_meta(backup_name)

\* _load_existing_backups raises: some listed backup with a meta file does not
\* decode.  The document is loaded before its age is looked at.
_load_existing_backups_raises ==
    \E i \in 1..Len(get_existing_backups_names) :
        /\ meta_path_exists(get_existing_backups_names[i])
        /\ _load_backup_meta(get_existing_backups_names[i]).raised

(***************************************************************************)
(* Execution pool: values                                                  *)
(***************************************************************************)
JobIdSeq == <<"a", "b", "c">>

\* Job(id_, callback): the callback is either given or None.
Job(job_id, callback) == [id_ |-> job_id, callback |-> callback]

\* No collecting call is in progress.
NoCollect == [kind |-> "none", keep_going |-> FALSE, batch |-> {}, seen |-> {}]

\* [job.id_ for job in self._future_to_job.values()]
RegisteredIds == { future_to_job[f].id_ : f \in DOMAIN future_to_job }

\* The ids a caller picks for new work: callers that avoid the ids in the
\* registry take the first free one.
FreeIds ==
    { JobIdSeq[i] : i \in { j \in 1..Len(JobIdSeq) :
                               /\ JobIdSeq[j] \notin RegisteredIds
                               /\ \A k \in 1..(j - 1) : JobIdSeq[k] \in RegisteredIds } }

(***************************************************************************)
(* S3 engine: values                                                       *)
(***************************************************************************)
\* Remote paths: a name, with or without a leading slash.
Paths == {[lead |-> TRUE, name |-> 1], [lead |-> FALSE, name |-> 2]}

\* str.lstrip('/'), lines 51, 57, 62, 66, 74, 82, 87, 165.
lstrip(remote_path) == [remote_path EXCEPT !.lead = FALSE]

\* Contents of the parts given to upload_part.
Bodies == {1, 2}

\* The tag by which the object store answers an uploaded part, lines 144-151.
ETag(body) == 10 + body

\* Length of the stored object that is downloaded, in units of 4 MiB.
ObjectLen == 3

\* DEFAULT_DOWNLOAD_PART_LEN, line 17, in units of 4 MiB.
DEFAULT_DOWNLOAD_PART_LEN == 2

\* part_len=None, line 173.
NoneLen == 0 - 1

\* The stored object that create_multipart_download opens.
DownloadPath == [lead |-> TRUE, name |-> 1]

\* The ids that a caller may pass for a multipart upload.
UploadIds == 1..MaxUploads

\* The ids that a caller may pass for a multipart download, line 169.
DownloadIds == {lstrip(DownloadPath)} \X (0..MaxClock)

\* The record of an operation of the engine: the client calls it made, how
\* many of them failed, what it raised, what it sent and what it returned.
NoOp ==
    [op |-> "none", id |-> 0, calls |-> 0, failed |-> 0, raised |-> "none",
     sent |-> <<>>, errors |-> {}, data |-> 0, args |-> <<>>]

EngineOp(op, id, calls, failed, raised, sent) ==
    [op |-> op, id |-> id, calls |-> calls, failed |-> failed, raised |-> raised,
     sent |-> sent, errors |-> {}, data |-> 0, args |-> <<>>]

\* The lists of at most n elements into which a list is cut, in order.
RECURSIVE chunked(_, _)
chunked(seq, n) ==
    IF seq = <<>> THEN <<>>
    ELSE IF Len(seq) <= n THEN <<seq>>
    ELSE <<SubSeq(seq, 1, n)>> \o chunked(SubSeq(seq, n + 1, Len(seq)), n)

\* The lists of a list of lists, one after the other.
RECURSIVE Flatten(_)
Flatten(seqs) == IF seqs = <<>> THEN <<>> ELSE Head(seqs) \o Flatten(Tail(seqs))

\* All lists of remote paths up to the longest.
PathLists == UNION { [1..n -> Paths] : n \in 0..MaxPaths }

\* The keys of a request that the object store reports as not deleted.
ErrorsOf(keys, bad) == { keys[i].name : i \in { j \in 1..Len(keys) : keys[j].name \in bad } }

\* Body.read(part_len) on a stream at position pos, line 176.
read(pos, part_len) ==
    IF part_len = NoneLen THEN ObjectLen - pos
    ELSE IF part_len < ObjectLen - pos THEN part_len ELSE ObjectLen - pos

(***************************************************************************)
(* util.retry: values                                                      *)
(***************************************************************************)
\* max_attempts=5, util.py line 121.
max_attempts == 5

\* The exceptions that a wrapped function raises.
ExceptionNames == {"OSError", "FileNotFoundError", "AssertionError"}

\* isinstance(exception, exception_types), as retry_if_exception_type asks
\* (line 134): FileNotFoundError is an OSError, all are Exceptions.
isinstance(exception, exception_types) ==
    \/ exception \in exception_types
    \/ "Exception" \in exception_types
    \/ exception = "FileNotFoundError" /\ "OSError" \in exception_types

\* The decorators: retry() with its defaults, retry(OSError) as on
\* _remove_shadow_data (control.py line 367), and both with fewer attempts.
RetryDecorators ==
    [exception_types : {{"Exception"}, {"OSError"}}, max_attempts : {1, 2, max_attempts}]

NoRetry ==
    [exception_types |-> {}, max_attempts |-> 0, outcomes |-> <<>>, status |-> "idle",
     raised |-> 0]

(***************************************************************************)
(* Initial state                                                           *)
(***************************************************************************)
(***************************************************************************)
(* PartMetadata                                                            *)
(***************************************************************************)
\* dict.get(key, default).
get(d, key, default) == IF key \in DOMAIN d THEN d[key] ELSE default

\* The dicts with key k and a value of S, and the dict without k.
Field(k, S) == {<<>>} \cup { k :> v : v \in S }

\* The raw part documents: each key is present or absent; "rows" is a key that
\* load does not know.
RawDocuments ==
    { c @@ b @@ f @@ l @@ t @@ d @@ r :
        c \in Field("checksum", {"abc", "def"}),
        b \in Field("bytes", {1, 2}),
        f \in Field("files", {<<"f1">>, <<"f1", "f2">>}),
        l \in Field("link", {NoLink, BackupPath(1)}),
        t \in Field("tarball", BOOLEAN),
        d \in Field("disk_name", {"", "hdd"}),
        r \in Field("rows", {1}) }

\* The keys load reads.
KnownKeys == {"checksum", "bytes", "files", "link", "tarball", "disk_name"}

\* The dict d without the keys outside keys.
Restrict(d, keys) == [k \in DOMAIN d \cap keys |-> d[k]]

\* RawMetadata.__init__, lines 18-32.
RawMetadata(checksum, size, files, tarball, link, disk) ==
    [checksum |-> checksum, size |-> size, files |-> files, tarball |-> tarball,
     link |-> link, disk_name |-> disk]

\* PartMetadata.__init__, lines 43-60; link and disk_name default to None.
PartMetadata(database, table, name, checksum, size, files, tarball, link, disk) ==
    [database |-> database, table |-> table, name |-> name,
     raw_metadata |-> RawMetadata(checksum, size, files, tarball, link, disk)]

\* None as the disk name of a RawMetadata.
NoDisk == "None"

NoPart == PartMetadata("", "", "", "", 0, <<>>, FALSE, NoLink, NoDisk)

NotLoaded == [op |-> "none", raised |-> "none", part |-> NoPart]

\* The properties of lines 62-102.
get_checksum(part) == part.raw_metadata.checksum

get_size(part) == part.raw_metadata.size

get_files(part) == part.raw_metadata.files

get_link(part) == part.raw_metadata.link

\* disk_name for a property that returns the stored name as it is.
disk_name_Stored(part) == part.raw_metadata.disk_name

\* Line 95: a stored name that is None or empty reads as "default".
disk_name(part) ==
    IF part.raw_metadata.disk_name \notin {NoDisk, ""}
    THEN part.raw_metadata.disk_name
    ELSE "default"

tarball(part) == part.raw_metadata.tarball

\* PartMetadata.load, lines 104-121: raw_metadata[key] raises KeyError for
\* an absent key, raw_metadata.get(key, default) gives the default.
load(db_name, table_name, part_name, raw_metadata) ==
    IF {"checksum", "bytes", "files", "link"} \subseteq DOMAIN raw_metadata
    THEN [op |-> "load", raised |-> "none",
          part |-> PartMetadata(db_name, table_name, part_name,
                                raw_metadata["checksum"],
                                raw_metadata["bytes"],
                                raw_metadata["files"],
                                get(raw_metadata, "tarball", FALSE),
                                raw_metadata["link"],
                                get(raw_metadata, "disk_name", "default"))]
    ELSE [op |-> "load", raised |-> "KeyError", part |-> NoPart]

\* The frozen parts: the attributes from_frozen_part reads.
FrozenParts ==
    [database : {"db1"}, table : {"t1"}, name : {"p1", "p2"}, checksum : {"abc"},
     size : {2}, files : {<<"f1", "f2">>}, disk_name : {"default", "hdd"}]

\* PartMetadata.from_frozen_part, lines 123-137: link is not given.
from_frozen_part(frozen_part) ==
    [op |-> "from_frozen_part", raised |-> "none",
     part |-> PartMetadata(frozen_part.database, frozen_part.table, frozen_part.name,
                           frozen_part.checksum, frozen_part.size, frozen_part.files,
                           TRUE, NoLink, frozen_part.disk_name)]

(***************************************************************************)
(* Paths of the database host                                              *)
(***************************************************************************)
\* A path is its text: a sequence of pieces, "/" being the separator.  A name
\* may be made of several pieces, so that one name can begin with another.
Sep == "/"

\* The directory made of the names comps, as text.
RECURSIVE Text(_)
Text(comps) == IF comps = <<>> THEN <<>> ELSE <<Sep>> \o Head(comps) \o Text(Tail(comps))

\* The names of a path's text, in order.
RECURSIVE SplitAcc(_, _, _)
SplitAcc(text, cur, acc) ==
    IF text = <<>> THEN (IF cur = <<>> THEN acc ELSE Append(acc, cur))
    ELSE IF Head(text) = Sep
         THEN SplitAcc(Tail(text), <<>>, IF cur = <<>> THEN acc ELSE Append(acc, cur))
         ELSE SplitAcc(Tail(text), Append(cur, Head(text)), acc)

Split(text) == SplitAcc(text, <<>>, <<>>)

\* The directory an absolute path names: ".." leaves the directory reached.
RECURSIVE Resolve(_, _)
Resolve(comps, acc) ==
    IF comps = <<>> THEN acc
    ELSE IF Head(comps) = <<"..">>
         THEN Resolve(Tail(comps), IF acc = <<>> THEN acc ELSE SubSeq(acc, 1, Len(acc) - 1))
         ELSE Resolve(Tail(comps), Append(acc, Head(comps)))

realparts(text) == Resolve(Split(text), <<>>)

\* Sequence a begins with sequence b.
BeginsWith(a, b) == Len(b) <= Len(a) /\ SubSeq(a, 1, Len(b)) = b

\* str.startswith: the text begins with the text of the prefix.
startswith(text, prefix) == BeginsWith(text, prefix)

\* os.path.join(a, b): an absolute b replaces a.
join(a, b) == IF b # <<>> /\ Head(b) = Sep THEN b ELSE a \o <<Sep>> \o b

\* os.path.relpath(path, start), both absolute: ".." for every directory of
\* start below the common one, then the rest of path.
RECURSIVE CommonLen(_, _)
CommonLen(a, b) ==
    IF a = <<>> \/ b = <<>> \/ Head(a) # Head(b) THEN 0
    ELSE 1 + CommonLen(Tail(a), Tail(b))

RECURSIVE Relative(_)
Relative(comps) ==
    IF comps = <<>> THEN <<>>
    ELSE IF Len(comps) = 1 THEN Head(comps)
    ELSE Head(comps) \o <<Sep>> \o Relative(Tail(comps))

relpath(text, start) ==
    LET to == realparts(text)
        from == realparts(start)
        k == CommonLen(to, from)
    IN  Relative([i \in 1..(Len(from) - k) |-> <<"..">>] \o SubSeq(to, k + 1, Len(to)))

\* config['data_path'].
_root_data_path == Text(<< <<"ch">> >>)

\* ClickhouseCTL.__init__, line 178.
_shadow_data_path == join(_root_data_path, <<"shadow">>)

\* The tables: database, name and data_path.
Tables ==
    { [database |-> "db1", name |-> t,
       data_path |-> Text(<< <<"ch">>, <<"data">>, <<t>> >>)] : t \in {"t1", "t2"} }

\* A directory with the directories above it.
Ancestors(dir) == { SubSeq(dir, 1, k) : k \in 1..Len(dir) }

\* The active parts of the tables, as directories of the data directory.
LiveDirs ==
    UNION { UNION { Ancestors(realparts(join(t.data_path, <<part>>))) :
                      part \in SeqToSet(PartNames(t.database, t.name)) } :
              t \in Tables }

\* A directory beside the shadow directory whose name begins with "shadow".
SiblingDirs == Ancestors(<< <<"ch">>, <<"shadow", "2">>, <<"x">> >>)

\* A snapshot an earlier run left in the shadow directory.
StaleDirs == Ancestors(<< <<"ch">>, <<"shadow">>, <<"0">>, <<"data">> >>)

\* os.path.exists, the directories being dirs.
existsIn(dirs, text) == realparts(text) \in dirs

exists(text) == existsIn(fs, text)

\* os.listdir: the names in the directory, the directories being dirs.
listdirIn(dirs, text) ==
    { dir[Len(dir)] : dir \in { d \in dirs : /\ Len(d) = Len(realparts(text)) + 1
                                              /\ BeginsWith(d, realparts(text)) } }

listdir(text) == listdirIn(fs, text)

\* The directories shutil.rmtree(path) removes: the directory and all below it.
Tree(text) == { d \in fs : BeginsWith(d, realparts(text)) }

\* The directory lies in the shadow directory (or is it).
InShadow(dir) == BeginsWith(dir, realparts(_shadow_data_path))

\* _get_shadow_increment, lines 377-380: the contents of increment.txt.
_get_shadow_increment == <<"1">>

\* _get_table_data_relpath, lines 353-354.
_get_table_data_relpath(table) == relpath(table.data_path, _root_data_path)

\* FreezedPart, lines 157-169, without checksum and size.
FreezedPart(database, table, name, partpath) ==
    [database |-> database, table |-> table, name |-> name, path |-> partpath]

\* The directory of a table's snapshot, line 338.
SnapshotPath(table) ==
    join(join(_shadow_data_path, _get_shadow_increment), _get_table_data_relpath(table))

\* _get_freezed_parts, lines 336-351, the directories being dirs.  os.listdir
\* gives the parts in no particular order: they are kept as a set.
_get_freezed_parts(dirs, table) ==
    IF ~existsIn(dirs, SnapshotPath(table)) THEN {}
    ELSE { FreezedPart(table.database, table.name, part, join(SnapshotPath(table), part)) :
               part \in listdirIn(dirs, SnapshotPath(table)) }

\* Parts a caller makes up: one of the data directory, one of the directory
\* beside the shadow directory, one that leaves the shadow directory by "..",
\* and one of the shadow directory that does not exist.
ForeignParts ==
    { FreezedPart("db1", "t1", <<"p1">>, Text(<< <<"ch">>, <<"data">>, <<"t1">>, <<"p1">> >>)),
      FreezedPart("db1", "t1", <<"x">>, Text(<< <<"ch">>, <<"shadow", "2">>, <<"x">> >>)),
      FreezedPart("db1", "t2", <<"p1">>,
                  Text(<< <<"ch">>, <<"shadow">>, <<"..">>, <<"data">>, <<"t2">>, <<"p1">> >>)),
      FreezedPart("db1", "t9", <<"p1">>,
                  Text(<< <<"ch">>, <<"shadow">>, <<"1">>, <<"data">>, <<"t9">>, <<"p1">> >>)) }

NoCtlOp == [op |-> "none", path |-> <<>>, raised |-> "none", attempts |-> 0]

Fields ==
    /\ now = 1
    /\ events = 0
    /\ chData = [k \in LiveKeys |-> ContentA]
    /\ objects = {}
    /\ metaStore = <<>>
    /\ runs = 0
    /\ pc = "idle"
    /\ failedAt = "none"
    /\ deduplicate_parts \in BOOLEAN
    /\ existing_backups = <<>>
    /\ backup_meta = EmptyMeta
    /\ databases = <<>>
    /\ dbIdx = 1
    /\ tables = <<>>
    /\ tblIdx = 1
    /\ parts_rows = <<>>
    /\ partIdx = 1
    /\ outstanding = {}
    /\ transferFailed = FALSE
    /\ savedParts = <<>>
    /\ shadow = {}
    /\ rpc = "idle"
    /\ r_backup_meta = EmptyMeta
    /\ r_databases = <<>>
    /\ r_dbIdx = 1
    /\ r_sqlIdx = 1
    /\ r_tblIdx = 1
    /\ r_partIdx = 1
    /\ attach_parts = <<>>
    /\ missed_logged = <<>>
    /\ restored_sql = <<>>
    /\ downloading = {}
    /\ downloadFailed = FALSE
    /\ detached = {}
    /\ chowned = {}
    /\ attached = <<>>
    /\ futures = <<>>
    /\ future_to_job = <<>>
    /\ collect = NoCollect
    /\ collects = 0
    /\ results = <<>>
    /\ callbacks = <<>>
    /\ outcome = "none"
    /\ lastSubmit = [id_ |-> "none", raised |-> FALSE]
    /\ scope = "outside"
    /\ body_exc = FALSE
    /\ shutdowns = <<>>
    /\ executor_down = FALSE
    /\ propagated = "none"
    /\ _multipart_uploads = <<>>
    /\ _multipart_downloads = <<>>
    /\ s3time = 0
    /\ s3 = [created |-> 0, parts |-> <<>>, completed |-> <<>>]
    /\ s3op = NoOp
    /\ s3ops = 0
    /\ retry_state = NoRetry

\* ExecPool.__init__ has returned.
Constructed ==
    /\ init_pc = "returned"
    /\ warmup = "done"

\* No part document is at hand.
NothingToLoad ==
    /\ raw_input = <<>>
    /\ frozen_input = CHOOSE fp \in FrozenParts : fp.name = "p1" /\ fp.disk_name = "default"
    /\ loaded = NotLoaded

\* The database host with the tables' data and no snapshot.
NoSnapshot ==
    /\ fs = LiveDirs
    /\ freezed_parts = {}
    /\ ctl_op = NoCtlOp

\* The objects after their construction.
Init ==
    /\ Fields
    /\ Constructed
    /\ NothingToLoad
    /\ NoSnapshot

\* The state in which ExecPool(executor) is about to be called.
New ==
    /\ Fields
    /\ init_pc = "new"
    /\ warmup = "none"
    /\ NothingToLoad
    /\ NoSnapshot

\* A part document read from a backup's metadata and a frozen part are at hand.
MetadataInit ==
    /\ Fields
    /\ Constructed
    /\ raw_input \in RawDocuments
    /\ frozen_input \in FrozenParts
    /\ loaded = NotLoaded
    /\ NoSnapshot

\* The database host as ClickhouseCTL may find it: with or without a directory
\* beside the shadow directory, with or without a snapshot of an earlier run.
ControlInit ==
    /\ Fields
    /\ Constructed
    /\ NothingToLoad
    /\ \E sibling \in {{}, SiblingDirs}, stale \in {{}, StaleDirs} :
          fs = LiveDirs \cup sibling \cup stale
    /\ freezed_parts = {}
    /\ ctl_op = NoCtlOp

\* No backup run is in progress and no restore has been started.
Idle == pc \in {"idle", "done", "failed"} /\ rpc = "idle"

envVars == <<chData, events>>

loopVars == <<databases, dbIdx, tables, tblIdx, parts_rows, partIdx>>

(***************************************************************************)
(* Environment                                                             *)
(***************************************************************************)
\* Time passes between runs.
Tick ==
    /\ Idle
    /\ events < MaxEvents
    /\ events' = events + 1
    /\ now' = now + 1
    /\ UNCHANGED <<auxVars, poolVars, restoreVars, chData, objects, metaStore, runs, pc,
                   failedAt, deduplicate_parts, existing_backups, backup_meta, loopVars,
                   outstanding, transferFailed, savedParts, shadow>>

\* A merge or mutation rewrites a live part between runs.
MutatePart ==
    /\ Idle
    /\ events < MaxEvents
    /\ \E k \in LiveKeys, c \in Contents :
          /\ c # chData[k]
          /\ chData' = [chData EXCEPT ![k] = c]
    /\ events' = events + 1
    /\ UNCHANGED <<auxVars, poolVars, restoreVars, now, objects, metaStore, runs, pc, failedAt,
                   deduplicate_parts, existing_backups, backup_meta, loopVars,
                   outstanding, transferFailed, savedParts, shadow>>

\* A stored part file disappears from storage (purge, lifecycle rule); the
\* file taken is the first of its part.
LoseObject ==
    /\ Idle
    /\ events < MaxEvents
    /\ \E o \in objects :
          /\ o[5] = "f1"
          /\ objects' = objects \ {o}
    /\ events' = events + 1
    /\ UNCHANGED <<auxVars, poolVars, restoreVars, now, chData, metaStore, runs, pc,
                   failedAt, deduplicate_parts, existing_backups, backup_meta, loopVars,
                   outstanding, transferFailed, savedParts, shadow>>

\* A persisted metadata document is damaged in storage.
CorruptMeta ==
    /\ Idle
    /\ events < MaxEvents
    /\ \E n \in DOMAIN metaStore :
          /\ metaStore[n].valid
          /\ metaStore' = [metaStore EXCEPT ![n].valid = FALSE]
    /\ events' = events + 1
    /\ UNCHANGED <<auxVars, poolVars, restoreVars, now, chData, objects, runs, pc, failedAt,
                   deduplicate_parts, existing_backups, backup_meta, loopVars,
                   outstanding, transferFailed, savedParts, shadow>>

\* The configuration file is edited between runs: deduplication is switched.
Reconfigure ==
    /\ Idle
    /\ deduplicate_parts' = ~deduplicate_parts
    /\ UNCHANGED <<auxVars, poolVars, restoreVars, now, envVars, objects, metaStore, runs, pc,
                   failedAt, existing_backups, backup_meta, loopVars, outstanding,
                   transferFailed, savedParts, shadow>>

(***************************************************************************)
(* backup()                                                                *)
(***************************************************************************)
\* BackupStart for a run that loads the existing backups whatever the
\* configuration says.
BackupStart_AlwaysLoads ==
    /\ Idle
    /\ runs < MaxRuns
    /\ ~_load_existing_backups_raises
    /\ \E dbs \in DbSelections : databases' = dbs
    /\ existing_backups' = _load_existing_backups(now - DedupAgeLimit)
    /\ runs' = runs + 1
    /\ backup_meta' = mark_start([EmptyMeta EXCEPT !.name = runs + 1,
                                                   !.path = BackupPath(runs + 1)])
    /\ dbIdx' = 1
    /\ tables' = <<>>
    /\ tblIdx' = 1
    /\ parts_rows' = <<>>
    /\ partIdx' = 1
    /\ savedParts' = <<>>
    /\ transferFailed' = FALSE
    /\ failedAt' = "none"
    /\ pc' = "db_loop"
    /\ UNCHANGED <<auxVars, poolVars, restoreVars, now, envVars, objects, metaStore,
                   deduplicate_parts, outstanding, shadow>>

\* backup(): lines 47-65.
BackupStart ==
    /\ Idle
    /\ runs < MaxRuns
    /\ deduplicate_parts => ~_load_existing_backups_raises
    /\ \E dbs \in DbSelections : databases' = dbs
    /\ existing_backups' =
          IF deduplicate_parts THEN _load_existing_backups(now - DedupAgeLimit) ELSE <<>>
    /\ runs' = runs + 1
    /\ backup_meta' = mark_start([EmptyMeta EXCEPT !.name = runs + 1,
                                                   !.path = BackupPath(runs + 1)])
    /\ dbIdx' = 1
    /\ tables' = <<>>
    /\ tblIdx' = 1
    /\ parts_rows' = <<>>
    /\ partIdx' = 1
    /\ savedParts' = <<>>
    /\ transferFailed' = FALSE
    /\ failedAt' = "none"
    /\ pc' = "db_loop"
    /\ UNCHANGED <<auxVars, poolVars, restoreVars, now, envVars, objects, metaStore,
                   deduplicate_parts, outstanding, shadow>>

\* BackupLoadFail for a loader that logs the decode error and goes on without
\* deduplication sources.
BackupLoadFail_Swallowed ==
    /\ Idle
    /\ runs < MaxRuns
    /\ deduplicate_parts
    /\ _load_existing_backups_raises
    /\ \E dbs \in DbSelections : databases' = dbs
    /\ existing_backups' = <<>>
    /\ runs' = runs + 1
    /\ backup_meta' = mark_start([EmptyMeta EXCEPT !.name = runs + 1,
                                                   !.path = BackupPath(runs + 1)])
    /\ dbIdx' = 1
    /\ tables' = <<>>
    /\ tblIdx' = 1
    /\ parts_rows' = <<>>
    /\ partIdx' = 1
    /\ savedParts' = <<>>
    /\ transferFailed' = FALSE
    /\ failedAt' = "load_existing_backups"
    /\ pc' = "db_loop"
    /\ UNCHANGED <<auxVars, poolVars, restoreVars, now, envVars, objects, metaStore,
                   deduplicate_parts, outstanding, shadow>>

\* backup(): lines 47-54, _load_existing_backups raises on a document that does
\* not decode; the run ends before its metadata is created.
BackupLoadFail ==
    /\ Idle
    /\ runs < MaxRuns
    /\ deduplicate_parts
    /\ _load_existing_backups_raises
    /\ \E dbs \in DbSelections : databases' = dbs
    /\ existing_backups' = <<>>
    /\ runs' = runs + 1
    /\ backup_meta' = EmptyMeta
    /\ dbIdx' = 1
    /\ tables' = <<>>
    /\ tblIdx' = 1
    /\ parts_rows' = <<>>
    /\ partIdx' = 1
    /\ savedParts' = <<>>
    /\ transferFailed' = FALSE
    /\ failedAt' = "load_existing_backups"
    /\ pc' = "failed"
    /\ UNCHANGED <<auxVars, poolVars, restoreVars, now, envVars, objects, metaStore,
                   deduplicate_parts, outstanding, shadow>>

\* backup_database(): lines 113-118.
BackupDatabaseBegin ==
    /\ pc = "db_loop"
    /\ dbIdx <= Len(databases)
    /\ backup_meta' = add_database(backup_meta, databases[dbIdx])
    /\ tables' = TablesOrdered(databases[dbIdx])
    /\ tblIdx' = 1
    /\ pc' = "table_loop"
    /\ UNCHANGED <<auxVars, poolVars, restoreVars, now, envVars, objects, metaStore, runs, failedAt,
                   deduplicate_parts, existing_backups, databases, dbIdx, parts_rows,
                   partIdx, outstanding, transferFailed, savedParts, shadow>>

RECURSIVE PartsInfo(_, _, _)
PartsInfo(db, table, names) ==
    IF names = <<>> THEN <<>>
    ELSE <<ClickhousePartInfo(db, table, Head(names))>> \o PartsInfo(db, table, Tail(names))

get_all_table_parts_info(db, table) == PartsInfo(db, table, PartNames(db, table))

\* BackupTableBegin for a run that freezes without removing the previous
\* snapshot.
BackupTableBegin_NoClear ==
    /\ pc = "table_loop"
    /\ tblIdx <= Len(tables)
    /\ LET db == databases[dbIdx]
           table == tables[tblIdx]
       IN  /\ objects' = objects \cup {TableSqlPath(backup_meta.name, db, table)}
           /\ backup_meta' = add_table_sql_path(backup_meta, db, table,
                                                TableSqlPath(backup_meta.name, db, table))
           /\ parts_rows' = get_all_table_parts_info(db, table)
           /\ shadow' = shadow \cup {<<db, table>>}
    /\ partIdx' = 1
    /\ pc' = "part_loop"
    /\ UNCHANGED <<auxVars, poolVars, restoreVars, now, envVars, metaStore, runs, failedAt,
                   deduplicate_parts, existing_backups, databases, dbIdx, tables, tblIdx,
                   outstanding, transferFailed, savedParts>>

\* backup_database(): lines 119-135, one table up to and including its freeze.
BackupTableBegin ==
    /\ pc = "table_loop"
    /\ tblIdx <= Len(tables)
    /\ LET db == databases[dbIdx]
           table == tables[tblIdx]
       IN  /\ objects' = objects \cup {TableSqlPath(backup_meta.name, db, table)}
           /\ backup_meta' = add_table_sql_path(backup_meta, db, table,
                                                TableSqlPath(backup_meta.name, db, table))
           /\ parts_rows' = get_all_table_parts_info(db, table)
           /\ shadow' = {<<db, table>>}
    /\ partIdx' = 1
    /\ pc' = "part_loop"
    /\ UNCHANGED <<auxVars, poolVars, restoreVars, now, envVars, metaStore, runs, failedAt,
                   deduplicate_parts, existing_backups, databases, dbIdx, tables, tblIdx,
                   outstanding, transferFailed, savedParts>>

\* BackupFreezeFail whose except clause logs the freeze error and does not raise.
BackupFreezeFail_Swallowed ==
    /\ pc = "table_loop"
    /\ tblIdx <= Len(tables)
    /\ events < MaxEvents
    /\ events' = events + 1
    /\ LET db == databases[dbIdx]
           table == tables[tblIdx]
       IN  /\ objects' = objects \cup {TableSqlPath(backup_meta.name, db, table)}
           /\ backup_meta' = add_table_sql_path(backup_meta, db, table,
                                                TableSqlPath(backup_meta.name, db, table))
           /\ parts_rows' = get_all_table_parts_info(db, table)
    /\ shadow' = {}
    /\ failedAt' = "freeze"
    /\ partIdx' = 1
    /\ pc' = "part_loop"
    /\ UNCHANGED <<auxVars, poolVars, restoreVars, now, chData, metaStore, runs, deduplicate_parts,
                   existing_backups, databases, dbIdx, tables, tblIdx, outstanding,
                   transferFailed, savedParts>>

\* backup_database(): lines 119-138, one table whose freeze_table raises.
BackupFreezeFail ==
    /\ pc = "table_loop"
    /\ tblIdx <= Len(tables)
    /\ events < MaxEvents
    /\ events' = events + 1
    /\ LET db == databases[dbIdx]
           table == tables[tblIdx]
       IN  /\ objects' = objects \cup {TableSqlPath(backup_meta.name, db, table)}
           /\ backup_meta' = add_table_sql_path(backup_meta, db, table,
                                                TableSqlPath(backup_meta.name, db, table))
           /\ parts_rows' = get_all_table_parts_info(db, table)
    /\ shadow' = {}
    /\ failedAt' = "freeze"
    /\ pc' = "failed"
    /\ UNCHANGED <<auxVars, poolVars, restoreVars, now, chData, metaStore, runs, deduplicate_parts,
                   existing_backups, databases, dbIdx, tables, tblIdx, partIdx,
                   outstanding, transferFailed, savedParts>>

RECURSIVE PartPaths(_, _, _, _, _)
PartPaths(name, db, table, part, files) ==
    IF files = <<>> THEN <<>>
    ELSE <<PartFilePath(name, db, table, part, Head(files))>>
         \o PartPaths(name, db, table, part, Tail(files))

save_part_data(name, part_info) ==
    PartPaths(name, part_info.database, part_info.table, part_info.name, part_info.files)

\* BackupPart that adds to the counters only for parts it transfers.
BackupPart_CountsTransferredOnly ==
    /\ pc = "part_loop"
    /\ partIdx <= Len(parts_rows)
    /\ LET part_info == parts_rows[partIdx]
           db == part_info.database
           table == part_info.table
           dedup == _deduplicate_part(part_info)
           link == dedup.link
           counted == [backup_meta EXCEPT !.rows = @ + part_info.rows,
                                          !.bytes = @ + part_info.bytes]
       IN  IF link = NoLink
           THEN LET part_remote_paths == save_part_data(backup_meta.name, part_info)
                IN  /\ outstanding' = outstanding \cup
                           {[key |-> <<db, table, part_info.name>>,
                             paths |-> part_remote_paths]}
                    /\ savedParts' = Append(savedParts, <<db, table, part_info.name>>)
                    /\ backup_meta' = add_part_contents(counted, db, table, part_info.name,
                                          part_remote_paths, get_contents(part_info), link)
           ELSE /\ outstanding' = outstanding
                /\ savedParts' = savedParts
                /\ backup_meta' = add_part_contents(backup_meta, db, table, part_info.name,
                                      dedup.paths, get_contents(part_info), link)
    /\ partIdx' = partIdx + 1
    /\ UNCHANGED <<auxVars, poolVars, restoreVars, now, envVars, objects, metaStore, runs, pc, failedAt,
                   deduplicate_parts, existing_backups, databases, dbIdx, tables, tblIdx,
                   parts_rows, transferFailed, shadow>>

\* backup_database(): lines 140-168, one part.
BackupPart ==
    /\ pc = "part_loop"
    /\ partIdx <= Len(parts_rows)
    /\ LET part_info == parts_rows[partIdx]
           db == part_info.database
           table == part_info.table
           dedup == _deduplicate_part(part_info)
           link == dedup.link
           counted == [backup_meta EXCEPT !.rows = @ + part_info.rows,
                                          !.bytes = @ + part_info.bytes]
       IN  IF link = NoLink
           THEN LET part_remote_paths == save_part_data(backup_meta.name, part_info)
                IN  /\ outstanding' = outstanding \cup
                           {[key |-> <<db, table, part_info.name>>,
                             paths |-> part_remote_paths]}
                    /\ savedParts' = Append(savedParts, <<db, table, part_info.name>>)
                    /\ backup_meta' = add_part_contents(counted, db, table, part_info.name,
                                          part_remote_paths, get_contents(part_info), link)
           ELSE /\ outstanding' = outstanding
                /\ savedParts' = savedParts
                /\ backup_meta' = add_part_contents(counted, db, table, part_info.name,
                                      dedup.paths, get_contents(part_info), link)
    /\ partIdx' = partIdx + 1
    /\ UNCHANGED <<auxVars, poolVars, restoreVars, now, envVars, objects, metaStore, runs, pc, failedAt,
                   deduplicate_parts, existing_backups, databases, dbIdx, tables, tblIdx,
                   parts_rows, transferFailed, shadow>>

\* A worker finishes an upload submitted by save_part_data.
UploadDone ==
    /\ \E t \in outstanding :
          /\ outstanding' = outstanding \ {t}
          /\ objects' = objects \cup SeqToSet(t.paths)
    /\ UNCHANGED <<auxVars, poolVars, restoreVars, now, envVars, metaStore, runs, pc, failedAt,
                   deduplicate_parts, existing_backups, backup_meta, loopVars,
                   transferFailed, savedParts, shadow>>

\* A worker's upload fails; wait() will raise.
UploadFail ==
    /\ events < MaxEvents
    /\ events' = events + 1
    /\ \E t \in outstanding :
          /\ outstanding' = outstanding \ {t}
    /\ transferFailed' = TRUE
    /\ UNCHANGED <<auxVars, poolVars, restoreVars, now, chData, objects, metaStore, runs, pc, failedAt,
                   deduplicate_parts, existing_backups, backup_meta, loopVars,
                   savedParts, shadow>>

\* BackupWait whose wait() does not raise when a transfer failed.
BackupWait_IgnoresFailure ==
    /\ pc = "part_loop"
    /\ partIdx > Len(parts_rows)
    /\ outstanding = {}
    /\ pc' = "table_loop"
    /\ failedAt' = failedAt
    /\ tblIdx' = tblIdx + 1
    /\ UNCHANGED <<auxVars, poolVars, restoreVars, now, envVars, objects, metaStore, runs,
                   deduplicate_parts, existing_backups, backup_meta, databases, dbIdx,
                   tables, parts_rows, partIdx, outstanding, transferFailed, savedParts,
                   shadow>>

\* BackupWait that goes on without joining the table's transfers.
BackupWait_NoJoin ==
    /\ pc = "part_loop"
    /\ partIdx > Len(parts_rows)
    /\ IF transferFailed
       THEN /\ pc' = "failed"
            /\ failedAt' = "transfer"
            /\ tblIdx' = tblIdx
       ELSE /\ pc' = "table_loop"
            /\ failedAt' = failedAt
            /\ tblIdx' = tblIdx + 1
    /\ UNCHANGED <<auxVars, poolVars, restoreVars, now, envVars, objects, metaStore, runs,
                   deduplicate_parts, existing_backups, backup_meta, databases, dbIdx,
                   tables, parts_rows, partIdx, outstanding, transferFailed, savedParts,
                   shadow>>

\* backup_database(): lines 170-171, wait() joins the table's transfers.
BackupWait ==
    /\ pc = "part_loop"
    /\ partIdx > Len(parts_rows)
    /\ outstanding = {}
    /\ IF transferFailed
       THEN /\ pc' = "failed"
            /\ failedAt' = "transfer"
            /\ tblIdx' = tblIdx
       ELSE /\ pc' = "table_loop"
            /\ failedAt' = failedAt
            /\ tblIdx' = tblIdx + 1
    /\ UNCHANGED <<auxVars, poolVars, restoreVars, now, envVars, objects, metaStore, runs,
                   deduplicate_parts, existing_backups, backup_meta, databases, dbIdx,
                   tables, parts_rows, partIdx, outstanding, transferFailed, savedParts,
                   shadow>>

\* backup_database(): lines 173-175.
BackupDatabaseEnd ==
    /\ pc = "table_loop"
    /\ tblIdx > Len(tables)
    /\ LET db == databases[dbIdx]
       IN  /\ objects' = objects \cup {DatabaseSqlPath(backup_meta.name, db)}
           /\ backup_meta' = set_db_sql_path(backup_meta, db,
                                             DatabaseSqlPath(backup_meta.name, db))
    /\ dbIdx' = dbIdx + 1
    /\ pc' = "db_loop"
    /\ UNCHANGED <<auxVars, poolVars, restoreVars, now, envVars, metaStore, runs, failedAt,
                   deduplicate_parts, existing_backups, databases, tables, tblIdx,
                   parts_rows, partIdx, outstanding, transferFailed, savedParts, shadow>>

\* backup(): line 70, remove_shadow_data() after the last database.
BackupRemoveShadow ==
    /\ pc = "db_loop"
    /\ dbIdx > Len(databases)
    /\ shadow' = {}
    /\ pc' = "mark_end"
    /\ UNCHANGED <<auxVars, poolVars, restoreVars, now, envVars, objects, metaStore, runs,
                   failedAt, deduplicate_parts, existing_backups, backup_meta, loopVars,
                   outstanding, transferFailed, savedParts>>

\* backup(): line 70, remove_shadow_data() raises.
BackupRemoveShadowFail ==
    /\ pc = "db_loop"
    /\ dbIdx > Len(databases)
    /\ events < MaxEvents
    /\ events' = events + 1
    /\ pc' = "failed"
    /\ failedAt' = "remove_shadow_data"
    /\ UNCHANGED <<auxVars, poolVars, restoreVars, now, chData, objects, metaStore, runs,
                   deduplicate_parts, existing_backups, backup_meta, loopVars,
                   outstanding, transferFailed, savedParts, shadow>>

\* backup(): lines 72-77.
BackupFinish ==
    /\ pc = "mark_end"
    /\ backup_meta' = mark_end(backup_meta)
    /\ now' = now + 1
    /\ metaStore' = (backup_meta.name :> mark_end(backup_meta)) @@ metaStore
    /\ pc' = "done"
    /\ UNCHANGED <<auxVars, poolVars, restoreVars, envVars, objects, runs, failedAt,
                   deduplicate_parts, existing_backups, loopVars, outstanding,
                   transferFailed, savedParts, shadow>>

\* backup(): lines 72-75, save_backup_meta() raises.
BackupSaveFail ==
    /\ pc = "mark_end"
    /\ events < MaxEvents
    /\ events' = events + 1
    /\ backup_meta' = mark_end(backup_meta)
    /\ now' = now + 1
    /\ pc' = "failed"
    /\ failedAt' = "save_backup_meta"
    /\ UNCHANGED <<auxVars, poolVars, restoreVars, chData, objects, metaStore, runs,
                   deduplicate_parts, existing_backups, loopVars, outstanding,
                   transferFailed, savedParts, shadow>>

(***************************************************************************)
(* restore()                                                               *)
(***************************************************************************)
RestoreSelections ==
    { [all |-> TRUE, names |-> <<>>],
      [all |-> FALSE, names |-> <<"db1">>],
      [all |-> FALSE, names |-> <<"db2", "db1">>],
      [all |-> FALSE, names |-> <<"db3">>],
      [all |-> FALSE, names |-> <<"db3", "db1", "db4">>] }

\* missed_databases with the membership test inverted.
missed_databases_Inverted(dbs, meta) ==
    SelectSeq(dbs, LAMBDA db : db \in SeqToSet(get_databases(meta)))

\* (db_name for db_name in databases if db_name not in backup_meta.get_databases())
missed_databases(dbs, meta) ==
    SelectSeq(dbs, LAMBDA db : db \notin SeqToSet(get_databases(meta)))

\* Truth value of the generator object tested by "if missed_databases:".  A
\* generator defines neither __bool__ nor __len__, so it is true whatever it
\* would yield.
GeneratorTruth(gen) == TRUE

get_db_sql_path(meta, db) ==
    LET i == CHOOSE j \in 1..Len(meta.db_sql) : meta.db_sql[j].database = db
    IN  meta.db_sql[i].path

get_tables_sql_paths(meta, db) ==
    LET ofDb == SelectSeq(meta.tables_sql, LAMBDA e : e.database = db)
    IN  [i \in 1..Len(ofDb) |-> ofDb[i].path]

get_tables(meta, db) ==
    LET ofDb == SelectSeq(meta.tables_sql, LAMBDA e : e.database = db)
    IN  [i \in 1..Len(ofDb) |-> ofDb[i].table]

get_parts(meta, db, table) ==
    LET ofTable == SelectSeq(meta.parts, LAMBDA e : e.database = db /\ e.table = table)
    IN  [i \in 1..Len(ofTable) |-> ofTable[i].name]

get_part_paths(meta, db, table, part) == get_part_contents(meta, db, table, part).paths

\* restore(): lines 83-98.
RestoreStart ==
    /\ Idle
    /\ \E backup_name \in DOMAIN metaStore, sel \in RestoreSelections :
          LET meta == metaStore[backup_name]
              missed == missed_databases(sel.names, meta)
          IN  /\ ~load_json_raises(meta)
              /\ r_backup_meta' = meta
              /\ IF sel.all
                 THEN /\ r_databases' = get_databases(meta)
                      /\ missed_logged' = <<>>
                      /\ rpc' = "db_loop"
                 ELSE IF GeneratorTruth(missed)
                 THEN /\ r_databases' = sel.names
                      /\ missed_logged' = missed
                      /\ rpc' = "failed"
                 ELSE /\ r_databases' = sel.names
                      /\ missed_logged' = <<>>
                      /\ rpc' = "db_loop"
    /\ r_dbIdx' = 1
    \* restore runs in a process of its own: ClickhouseBackup.__init__, lines 20-26
    /\ existing_backups' = <<>>
    /\ backup_meta' = EmptyMeta
    /\ pc' = "idle"
    /\ failedAt' = "none"
    /\ databases' = <<>>
    /\ dbIdx' = 1
    /\ tables' = <<>>
    /\ tblIdx' = 1
    /\ parts_rows' = <<>>
    /\ partIdx' = 1
    /\ savedParts' = <<>>
    /\ transferFailed' = FALSE
    /\ UNCHANGED <<auxVars, poolVars, now, envVars, objects, metaStore, runs, outstanding, shadow,
                   deduplicate_parts, r_sqlIdx, r_tblIdx, r_partIdx, attach_parts, restored_sql,
                   downloading, downloadFailed, detached, chowned, attached>>

\* restore_database(): lines 219-222.
RestoreDatabaseSql ==
    /\ rpc = "db_loop"
    /\ r_dbIdx <= Len(r_databases)
    /\ restored_sql' = Append(restored_sql,
                              get_db_sql_path(r_backup_meta, r_databases[r_dbIdx]))
    /\ r_sqlIdx' = 1
    /\ rpc' = "table_sql"
    /\ UNCHANGED <<auxVars, poolVars, backupVars, r_backup_meta, r_databases, r_dbIdx, r_tblIdx, r_partIdx,
                   attach_parts, missed_logged, downloading, downloadFailed, detached,
                   chowned, attached>>

\* restore(): the loop of lines 100-101 is exhausted.
RestoreFinish ==
    /\ rpc = "db_loop"
    /\ r_dbIdx > Len(r_databases)
    /\ rpc' = "done"
    /\ UNCHANGED <<auxVars, poolVars, backupVars, r_backup_meta, r_databases, r_dbIdx, r_sqlIdx, r_tblIdx,
                   r_partIdx, attach_parts, missed_logged, restored_sql, downloading,
                   downloadFailed, detached, chowned, attached>>

\* restore_database(): lines 227-229, one table's sql.
RestoreTableSql ==
    /\ rpc = "table_sql"
    /\ LET paths == get_tables_sql_paths(r_backup_meta, r_databases[r_dbIdx])
       IN  /\ r_sqlIdx <= Len(paths)
           /\ restored_sql' = Append(restored_sql, paths[r_sqlIdx])
    /\ r_sqlIdx' = r_sqlIdx + 1
    /\ UNCHANGED <<auxVars, poolVars, backupVars, rpc, r_backup_meta, r_databases, r_dbIdx, r_tblIdx,
                   r_partIdx, attach_parts, missed_logged, downloading, downloadFailed,
                   detached, chowned, attached>>

\* RestoreDataBegin for a restore_database that leaves the sql loop early.
RestoreDataBegin_Early ==
    /\ rpc = "table_sql"
    /\ r_tblIdx' = 1
    /\ r_partIdx' = 1
    /\ attach_parts' = <<>>
    /\ rpc' = "download"
    /\ UNCHANGED <<auxVars, poolVars, backupVars, r_backup_meta, r_databases, r_dbIdx, r_sqlIdx,
                   missed_logged, restored_sql, downloading, downloadFailed, detached,
                   chowned, attached>>

\* restore_database(): line 232, the data loop starts once the sql loop is exhausted.
RestoreDataBegin ==
    /\ rpc = "table_sql"
    /\ r_sqlIdx > Len(get_tables_sql_paths(r_backup_meta, r_databases[r_dbIdx]))
    /\ r_tblIdx' = 1
    /\ r_partIdx' = 1
    /\ attach_parts' = <<>>
    /\ rpc' = "download"
    /\ UNCHANGED <<auxVars, poolVars, backupVars, r_backup_meta, r_databases, r_dbIdx, r_sqlIdx,
                   missed_logged, restored_sql, downloading, downloadFailed, detached,
                   chowned, attached>>

RestoreTables == get_tables(r_backup_meta, r_databases[r_dbIdx])

RestoreParts == get_parts(r_backup_meta, r_databases[r_dbIdx], RestoreTables[r_tblIdx])

\* RestoreDownloadPart that submits the download and forgets to note the part.
RestoreDownloadPart_Forgets ==
    /\ rpc = "download"
    /\ r_tblIdx <= Len(RestoreTables)
    /\ r_partIdx <= Len(RestoreParts)
    /\ LET db == r_databases[r_dbIdx]
           table == RestoreTables[r_tblIdx]
           part_name == RestoreParts[r_partIdx]
       IN  /\ downloading' = downloading \cup
                  {[key |-> <<db, table, part_name>>,
                    paths |-> get_part_paths(r_backup_meta, db, table, part_name)]}
           /\ attach_parts' = attach_parts
    /\ r_partIdx' = r_partIdx + 1
    /\ UNCHANGED <<auxVars, poolVars, backupVars, rpc, r_backup_meta, r_databases, r_dbIdx, r_sqlIdx,
                   r_tblIdx, missed_logged, restored_sql, downloadFailed, detached,
                   chowned, attached>>

\* restore_database(): lines 237-246, one part's download is submitted.
RestoreDownloadPart ==
    /\ rpc = "download"
    /\ r_tblIdx <= Len(RestoreTables)
    /\ r_partIdx <= Len(RestoreParts)
    /\ LET db == r_databases[r_dbIdx]
           table == RestoreTables[r_tblIdx]
           part_name == RestoreParts[r_partIdx]
       IN  /\ downloading' = downloading \cup
                  {[key |-> <<db, table, part_name>>,
                    paths |-> get_part_paths(r_backup_meta, db, table, part_name)]}
           /\ attach_parts' = Append(attach_parts, part_name)
    /\ r_partIdx' = r_partIdx + 1
    /\ UNCHANGED <<auxVars, poolVars, backupVars, rpc, r_backup_meta, r_databases, r_dbIdx, r_sqlIdx,
                   r_tblIdx, missed_logged, restored_sql, downloadFailed, detached,
                   chowned, attached>>

\* A worker finishes a download: the part's files are in the detached directory.
DownloadDone ==
    /\ \E t \in downloading :
          /\ \A i \in 1..Len(t.paths) : path_exists(t.paths[i])
          /\ downloading' = downloading \ {t}
          /\ detached' = detached \cup {t.key}
    /\ UNCHANGED <<auxVars, poolVars, backupVars, rpc, r_backup_meta, r_databases, r_dbIdx, r_sqlIdx,
                   r_tblIdx, r_partIdx, attach_parts, missed_logged, restored_sql,
                   downloadFailed, chowned, attached>>

\* A worker's download fails on a file that is not in storage; wait() will raise.
DownloadFail ==
    /\ \E t \in downloading :
          /\ \E i \in 1..Len(t.paths) : ~path_exists(t.paths[i])
          /\ downloading' = downloading \ {t}
    /\ downloadFailed' = TRUE
    /\ UNCHANGED <<auxVars, poolVars, backupVars, rpc, r_backup_meta, r_databases, r_dbIdx, r_sqlIdx,
                   r_tblIdx, r_partIdx, attach_parts, missed_logged, restored_sql,
                   detached, chowned, attached>>

\* RestoreWait that does not join the downloads.
RestoreWait_NoJoin ==
    /\ rpc = "download"
    /\ r_tblIdx <= Len(RestoreTables)
    /\ r_partIdx > Len(RestoreParts)
    /\ rpc' = IF downloadFailed THEN "failed" ELSE "chown"
    /\ UNCHANGED <<auxVars, poolVars, backupVars, r_backup_meta, r_databases, r_dbIdx, r_sqlIdx, r_tblIdx,
                   r_partIdx, attach_parts, missed_logged, restored_sql, downloading,
                   downloadFailed, detached, chowned, attached>>

\* restore_database(): lines 248-249, wait() joins the table's downloads.
RestoreWait ==
    /\ rpc = "download"
    /\ r_tblIdx <= Len(RestoreTables)
    /\ r_partIdx > Len(RestoreParts)
    /\ downloading = {}
    /\ rpc' = IF downloadFailed THEN "failed" ELSE "chown"
    /\ UNCHANGED <<auxVars, poolVars, backupVars, r_backup_meta, r_databases, r_dbIdx, r_sqlIdx, r_tblIdx,
                   r_partIdx, attach_parts, missed_logged, restored_sql, downloading,
                   downloadFailed, detached, chowned, attached>>

\* restore_database(): line 250.
RestoreChown ==
    /\ rpc = "chown"
    /\ chowned' = chowned \cup {<<r_databases[r_dbIdx], RestoreTables[r_tblIdx]>>}
    /\ r_partIdx' = 1
    /\ rpc' = "attach"
    /\ UNCHANGED <<auxVars, poolVars, backupVars, r_backup_meta, r_databases, r_dbIdx, r_sqlIdx, r_tblIdx,
                   attach_parts, missed_logged, restored_sql, downloading, downloadFailed,
                   detached, attached>>

\* restore_database(): lines 251-255, one attach_part call.
RestoreAttachPart ==
    /\ rpc = "attach"
    /\ r_partIdx <= Len(attach_parts)
    /\ attached' = Append(attached, <<r_databases[r_dbIdx], RestoreTables[r_tblIdx],
                                      attach_parts[r_partIdx]>>)
    /\ r_partIdx' = r_partIdx + 1
    /\ UNCHANGED <<auxVars, poolVars, backupVars, rpc, r_backup_meta, r_databases, r_dbIdx, r_sqlIdx,
                   r_tblIdx, attach_parts, missed_logged, restored_sql, downloading,
                   downloadFailed, detached, chowned>>

\* restore_database(): the attach loop is exhausted, on to the next table (line 232).
RestoreTableEnd ==
    /\ rpc = "attach"
    /\ r_partIdx > Len(attach_parts)
    /\ r_tblIdx' = r_tblIdx + 1
    /\ r_partIdx' = 1
    /\ attach_parts' = <<>>
    /\ rpc' = "download"
    /\ UNCHANGED <<auxVars, poolVars, backupVars, r_backup_meta, r_databases, r_dbIdx, r_sqlIdx,
                   missed_logged, restored_sql, downloading, downloadFailed, detached,
                   chowned, attached>>

\* restore_database() returns: the table loop is exhausted, on to the next database.
RestoreDatabaseEnd ==
    /\ rpc = "download"
    /\ r_tblIdx > Len(RestoreTables)
    /\ r_dbIdx' = r_dbIdx + 1
    /\ rpc' = "db_loop"
    /\ UNCHANGED <<auxVars, poolVars, backupVars, r_backup_meta, r_databases, r_sqlIdx, r_tblIdx, r_partIdx,
                   attach_parts, missed_logged, restored_sql, downloading, downloadFailed,
                   detached, chowned, attached>>

(***************************************************************************)
(* ExecPool                                                                *)
(***************************************************************************)
\* ExecPool.submit, lines 55-59: the id is free, the work is handed to the
\* executor and the new future is entered in the registry.
Submit ==
    /\ init_pc = "returned"
    /\ Len(futures) < MaxJobs
    /\ ~executor_down
    /\ \E job_id \in FreeIds, callback \in BOOLEAN :
          /\ job_id \notin RegisteredIds
          /\ futures' = Append(futures, "running")
          /\ future_to_job' = (Len(futures) + 1 :> Job(job_id, callback)) @@ future_to_job
          /\ lastSubmit' = [id_ |-> job_id, raised |-> FALSE]
    /\ UNCHANGED <<auxVars, backupVars, restoreVars, collect, collects, results, callbacks, outcome>>

\* SubmitDuplicate for a submit without the check of line 55.
SubmitDuplicate_Unchecked ==
    /\ init_pc = "returned"
    /\ Len(futures) < MaxJobs
    /\ \E job_id \in RegisteredIds, callback \in BOOLEAN :
          /\ futures' = Append(futures, "running")
          /\ future_to_job' = (Len(futures) + 1 :> Job(job_id, callback)) @@ future_to_job
          /\ lastSubmit' = [id_ |-> job_id, raised |-> FALSE]
    /\ UNCHANGED <<auxVars, backupVars, restoreVars, collect, collects, results, callbacks, outcome>>

\* ExecPool.submit, lines 55-56: the id is that of a job in the registry.
SubmitDuplicate ==
    /\ init_pc = "returned"
    /\ Len(futures) < MaxJobs
    /\ \E job_id \in RegisteredIds :
          lastSubmit' = [id_ |-> job_id, raised |-> TRUE]
    /\ UNCHANGED <<auxVars, backupVars, restoreVars, futures, future_to_job, collect, collects,
                   results, callbacks, outcome>>

\* A worker of the executor finishes a job's work.
JobSucceeds ==
    /\ \E f \in 1..Len(futures) :
          /\ futures[f] = "running"
          /\ futures' = [futures EXCEPT ![f] = "ok"]
    /\ UNCHANGED <<auxVars, backupVars, restoreVars, future_to_job, collect, collects, results,
                   callbacks, outcome, lastSubmit>>

\* A job's work raises in its worker.
JobFails ==
    /\ \E f \in 1..Len(futures) :
          /\ futures[f] = "running"
          /\ futures' = [futures EXCEPT ![f] = "failed"]
    /\ UNCHANGED <<auxVars, backupVars, restoreVars, future_to_job, collect, collects, results,
                   callbacks, outcome, lastSubmit>>

\* wait_all(keep_going) is called, lines 105-112: as_completed takes the
\* futures that are in the registry now.
WaitAllBegin ==
    /\ init_pc = "returned"
    /\ collect.kind = "none"
    /\ collects < MaxCollects
    /\ \E keep_going \in BOOLEAN :
          collect' = [kind |-> "wait_all", keep_going |-> keep_going,
                      batch |-> DOMAIN future_to_job, seen |-> {}]
    /\ collects' = collects + 1
    /\ results' = <<>>
    /\ outcome' = "none"
    /\ UNCHANGED <<auxVars, backupVars, restoreVars, futures, future_to_job, callbacks, lastSubmit>>

\* as_completed(keep_going) is called and its generator is started, lines 90-97.
AsCompletedBegin ==
    /\ init_pc = "returned"
    /\ collect.kind = "none"
    /\ collects < MaxCollects
    /\ \E keep_going \in BOOLEAN :
          collect' = [kind |-> "as_completed", keep_going |-> keep_going,
                      batch |-> DOMAIN future_to_job, seen |-> {}]
    /\ collects' = collects + 1
    /\ results' = <<>>
    /\ outcome' = "none"
    /\ UNCHANGED <<auxVars, backupVars, restoreVars, futures, future_to_job, callbacks, lastSubmit>>

\* CollectResult for a collector that does not call the job's callback.
CollectResult_NoCallback ==
    /\ collect.kind # "none"
    /\ \E f \in collect.batch \ collect.seen :
          /\ futures[f] = "ok"
          /\ collect' = [collect EXCEPT !.seen = @ \cup {f}]
          /\ results' = IF collect.kind = "as_completed" THEN Append(results, f)
                         ELSE results
    /\ UNCHANGED <<auxVars, backupVars, restoreVars, futures, future_to_job, collects, outcome,
                   callbacks, lastSubmit>>

\* _as_completed, lines 70-76, with lines 97-101 or 112-114: a finished future
\* whose result() returns; the callback runs and as_completed yields the result.
CollectResult ==
    /\ collect.kind # "none"
    /\ \E f \in collect.batch \ collect.seen :
          /\ futures[f] = "ok"
          /\ collect' = [collect EXCEPT !.seen = @ \cup {f}]
          /\ callbacks' = IF future_to_job[f].callback THEN Append(callbacks, f)
                           ELSE callbacks
          /\ results' = IF collect.kind = "as_completed" THEN Append(results, f)
                         ELSE results
    /\ UNCHANGED <<auxVars, backupVars, restoreVars, futures, future_to_job, collects, outcome,
                   lastSubmit>>

\* CollectSkip for a collector that raises whatever keep_going says.
CollectSkip_Raises ==
    /\ collect.kind # "none"
    /\ collect.keep_going
    /\ \E f \in collect.batch \ collect.seen : futures[f] = "failed"
    /\ collect' = NoCollect
    /\ outcome' = "raised"
    /\ UNCHANGED <<auxVars, backupVars, restoreVars, futures, future_to_job, collects, results,
                   callbacks, lastSubmit>>

\* _as_completed, lines 77-84: a finished future whose result() raises, with
\* keep_going: a warning is logged and the loop goes on.
CollectSkip ==
    /\ collect.kind # "none"
    /\ collect.keep_going
    /\ \E f \in collect.batch \ collect.seen :
          /\ futures[f] = "failed"
          /\ collect' = [collect EXCEPT !.seen = @ \cup {f}]
    /\ UNCHANGED <<auxVars, backupVars, restoreVars, futures, future_to_job, collects, results,
                   callbacks, outcome, lastSubmit>>

\* CollectRaise for a collector that logs the failure and goes on to the
\* other jobs of the batch.
CollectRaise_Drains ==
    /\ collect.kind # "none"
    /\ ~collect.keep_going
    /\ \E f \in collect.batch \ collect.seen :
          /\ futures[f] = "failed"
          /\ collect' = [collect EXCEPT !.seen = @ \cup {f}]
    /\ UNCHANGED <<auxVars, backupVars, restoreVars, futures, future_to_job, collects, results,
                   callbacks, outcome, lastSubmit>>

\* _as_completed, lines 77-88: a finished future whose result() raises, without
\* keep_going: the error is logged and raised to the caller of the collecting call.
CollectRaise ==
    /\ collect.kind # "none"
    /\ ~collect.keep_going
    /\ \E f \in collect.batch \ collect.seen : futures[f] = "failed"
    /\ collect' = NoCollect
    /\ outcome' = "raised"
    /\ UNCHANGED <<auxVars, backupVars, restoreVars, futures, future_to_job, collects, results,
                   callbacks, lastSubmit>>

\* CollectTimeout for a collecting call that gives up the jobs of its batch
\* when the timeout runs out.
CollectTimeout_Abandons ==
    /\ collect.kind # "none"
    /\ \E f \in collect.batch \ collect.seen : futures[f] = "running"
    /\ future_to_job' = <<>>
    /\ collect' = NoCollect
    /\ outcome' = "timeout"
    /\ UNCHANGED <<auxVars, backupVars, restoreVars, futures, collects, results, callbacks,
                   lastSubmit>>

\* _as_completed, line 70: the timeout given to the collecting call runs out
\* while a job of the batch is still running; concurrent.futures.as_completed
\* raises TimeoutError, which no handler of lines 69-116 catches.
CollectTimeout ==
    /\ collect.kind # "none"
    /\ \E f \in collect.batch \ collect.seen : futures[f] = "running"
    /\ collect' = NoCollect
    /\ outcome' = "timeout"
    /\ UNCHANGED <<auxVars, backupVars, restoreVars, futures, future_to_job, collects, results,
                   callbacks, lastSubmit>>

\* CollectStop for a generator that empties the registry when it is closed.
CollectStop_Clears ==
    /\ collect.kind = "as_completed"
    /\ Len(results) >= 1
    /\ future_to_job' = <<>>
    /\ collect' = NoCollect
    /\ outcome' = "stopped"
    /\ UNCHANGED <<auxVars, backupVars, restoreVars, futures, collects, results, callbacks,
                   lastSubmit>>

\* The consumer of as_completed stops iterating after a result, lines 97-101:
\* the generator is closed at its yield and line 103 is not reached.
CollectStop ==
    /\ collect.kind = "as_completed"
    /\ Len(results) >= 1
    /\ collect' = NoCollect
    /\ outcome' = "stopped"
    /\ UNCHANGED <<auxVars, backupVars, restoreVars, futures, future_to_job, collects,
                   results, callbacks, lastSubmit>>

\* CollectExhausted for a collecting call that returns without emptying the
\* registry.
CollectExhausted_KeepsRegistry ==
    /\ collect.kind # "none"
    /\ collect.batch \ collect.seen = {}
    /\ collect' = NoCollect
    /\ outcome' = "returned"
    /\ UNCHANGED <<auxVars, backupVars, restoreVars, futures, future_to_job, collects, results,
                   callbacks, lastSubmit>>

\* Lines 103 and 116: the loop is exhausted, the registry is replaced by an
\* empty one and the call returns.
CollectExhausted ==
    /\ collect.kind # "none"
    /\ collect.batch \ collect.seen = {}
    /\ future_to_job' = <<>>
    /\ collect' = NoCollect
    /\ outcome' = "returned"
    /\ UNCHANGED <<auxVars, backupVars, restoreVars, futures, collects, results, callbacks,
                   lastSubmit>>

BackupNext ==
    \/ BackupStart
    \/ BackupDatabaseBegin
    \/ BackupTableBegin
    \/ BackupPart
    \/ UploadDone
    \/ BackupWait
    \/ BackupDatabaseEnd
    \/ BackupRemoveShadow
    \/ BackupFinish

FaultNext ==
    \/ BackupLoadFail
    \/ BackupFreezeFail
    \/ UploadFail
    \/ BackupRemoveShadowFail
    \/ BackupSaveFail

RestoreNext ==
    \/ RestoreStart
    \/ RestoreDatabaseSql
    \/ RestoreFinish
    \/ RestoreTableSql
    \/ RestoreDataBegin
    \/ RestoreDownloadPart
    \/ DownloadDone
    \/ DownloadFail
    \/ RestoreWait
    \/ RestoreChown
    \/ RestoreAttachPart
    \/ RestoreTableEnd
    \/ RestoreDatabaseEnd

\* Backup runs, their faults and what happens around them.
Next ==
    \/ Tick
    \/ MutatePart
    \/ LoseObject
    \/ CorruptMeta
    \/ Reconfigure
    \/ BackupNext
    \/ FaultNext

Spec == Init /\ [][Next]_vars

\* Restores of the backups that runs without faults leave in storage, with the
\* instance's parts changing and stored files disappearing between runs.
NextRestore ==
    \/ MutatePart
    \/ LoseObject
    \/ BackupNext
    \/ RestoreNext

RestoreSpec == Init /\ [][NextRestore]_vars

(***************************************************************************)
(* S3 engine                                                               *)
(***************************************************************************)
\* time.time() moves on.
S3Tick ==
    /\ s3time < MaxClock
    /\ s3time' = s3time + 1
    /\ UNCHANGED <<outsideEngine, _multipart_uploads, _multipart_downloads, s3, s3op, s3ops>>

\* upload_file, upload_data, download_file, download_data, delete_file and
\* path_exists, lines 50-75 and 115-123: one call of the client with the key;
\* what the client raises is raised to the caller, except by path_exists,
\* which answers False. These operations, list_dir and delete_files neither
\* read nor change a multipart session, so they are taken before the first
\* multipart operation only.
EngineCall ==
    /\ s3ops = 0
    /\ \E op \in {"upload_file", "upload_data", "download_file", "download_data",
                   "delete_file", "path_exists"},
          remote_path \in Paths, fails \in BOOLEAN :
          s3op' = [EngineOp(op, 0, 1, IF fails THEN 1 ELSE 0,
                            IF fails /\ op # "path_exists" THEN "ClientError" ELSE "none",
                            <<<<IF op = "path_exists" THEN remote_path
                                ELSE lstrip(remote_path)>>>>)
                      EXCEPT !.data = IF op = "path_exists" /\ ~fails THEN 1 ELSE 0]
    /\ UNCHANGED <<outsideEngine, _multipart_uploads, _multipart_downloads, s3time, s3, s3ops>>

\* list_dir, lines 86-113: the paginator asks the client for one page after
\* the other; what the client raises is raised to the caller.
list_dir ==
    /\ s3ops = 0
    /\ \E remote_path \in Paths, pages \in 1..MaxPages, fails \in BOOLEAN :
          s3op' = EngineOp("list_dir", 0, pages, IF fails THEN 1 ELSE 0,
                           IF fails THEN "ClientError" ELSE "none",
                           [i \in 1..pages |-> <<lstrip(remote_path)>>])
    /\ UNCHANGED <<outsideEngine, _multipart_uploads, _multipart_downloads, s3time, s3, s3ops>>

\* delete_files for an engine that leaves the last path out of the request.
delete_files_DropsLast(remote_paths, fails, bad) ==
    LET delete_objects == [i \in 1..Len(remote_paths) - 1 |-> lstrip(remote_paths[i])]
    IN  IF fails
        THEN [EngineOp("delete_files", 0, 1, 1, "ClientError", <<delete_objects>>)
                 EXCEPT !.args = remote_paths]
        ELSE [EngineOp("delete_files", 0, 1, 0, "none", <<delete_objects>>)
                 EXCEPT !.errors = ErrorsOf(delete_objects, bad), !.args = remote_paths]

\* delete_files, lines 77-84: one delete_objects request with the keys of all
\* the paths; the response of the object store, which names the keys it did
\* not delete, is returned.
delete_files(remote_paths, fails, bad) ==
    LET delete_objects == [i \in 1..Len(remote_paths) |-> lstrip(remote_paths[i])]
    IN  IF fails
        THEN [EngineOp("delete_files", 0, 1, 1, "ClientError", <<delete_objects>>)
                 EXCEPT !.args = remote_paths]
        ELSE [EngineOp("delete_files", 0, 1, 0, "none", <<delete_objects>>)
                 EXCEPT !.errors = ErrorsOf(delete_objects, bad), !.args = remote_paths]

\* A call of delete_files on the engine.
delete_files_call ==
    /\ s3ops = 0
    /\ \E remote_paths \in PathLists, fails \in BOOLEAN, bad \in {{}, {1}} :
          /\ fails => bad = {}
          /\ s3op' = delete_files(remote_paths, fails, bad)
    /\ UNCHANGED <<outsideEngine, _multipart_uploads, _multipart_downloads, s3time, s3, s3ops>>

\* The calls of delete_files made for the chunks up to the k-th, as one record.
RECURSIVE delete_chunks(_, _, _, _)
delete_chunks(chunks, k, failAt, bad) ==
    IF k = 0
    THEN [EngineOp("delete_bulk", 0, 0, 0, "none", <<>>) EXCEPT !.args = Flatten(chunks)]
    ELSE LET before == delete_chunks(chunks, k - 1, failAt, bad)
             this == delete_files(chunks[k], failAt = k, bad)
         IN  [before EXCEPT !.calls = @ + 1,
                            !.failed = @ + this.failed,
                            !.raised = this.raised,
                            !.sent = @ \o this.sent,
                            !.errors = @ \cup this.errors]

\* The bulk delete of the storage layer: the paths are cut into chunks of
\* bulk_delete_chunk_size and delete_files is called for one chunk after the
\* other; a call that raises ends the bulk delete.
delete_bulk ==
    /\ s3ops = 0
    /\ \E remote_paths \in PathLists, bad \in {{}, {1}} :
          LET chunks == chunked(remote_paths, bulk_delete_chunk_size)
          IN  \E failAt \in 0..Len(chunks) :
                 s3op' = delete_chunks(chunks, IF failAt = 0 THEN Len(chunks) ELSE failAt,
                                       failAt, bad)
    /\ UNCHANGED <<outsideEngine, _multipart_uploads, _multipart_downloads, s3time, s3, s3ops>>

\* create_multipart_upload, lines 125-135: the object store issues an upload
\* id and a session with no parts is entered under it.
create_multipart_upload ==
    /\ s3ops < MaxS3Ops
    /\ s3.created < MaxUploads
    /\ \E remote_path \in Paths, fails \in BOOLEAN :
          IF fails
          THEN /\ s3op' = EngineOp("create_multipart_upload", 0, 1, 1, "ClientError",
                                    <<<<remote_path>>>>)
               /\ UNCHANGED <<_multipart_uploads, s3>>
          ELSE LET upload_id == s3.created + 1
               IN  /\ s3' = [s3 EXCEPT !.created = upload_id,
                                        !.parts = (upload_id :> <<>>) @@ @]
                   /\ _multipart_uploads' =
                          (upload_id :> [ctime |-> s3time, Parts |-> <<>>])
                             @@ _multipart_uploads
                   /\ s3op' = [EngineOp("create_multipart_upload", 0, 1, 0, "none",
                                         <<<<remote_path>>>>) EXCEPT !.data = upload_id]
    /\ s3ops' = s3ops + 1
    /\ UNCHANGED <<outsideEngine, _multipart_downloads, s3time>>

\* The number that upload_part gives to the next part, lines 138-142.
part_num(upload_parts) ==
    IF upload_parts = <<>> THEN 1 ELSE upload_parts[Len(upload_parts)].PartNumber + 1

\* upload_part for an engine that calls the client again when it has raised.
upload_part_Retrying(data, upload_id, fails) ==
    LET upload_parts == _multipart_uploads[upload_id].Parts
        num == part_num(upload_parts)
    IN  /\ s3' = [s3 EXCEPT !.parts[upload_id] =
                                 Append(@, [PartNumber |-> num, Body |-> data])]
        /\ _multipart_uploads' =
               [_multipart_uploads EXCEPT ![upload_id].Parts =
                   Append(@, [ETag |-> ETag(data), PartNumber |-> num])]
        /\ s3op' = [EngineOp("upload_part", upload_id, IF fails THEN 2 ELSE 1,
                              IF fails THEN 1 ELSE 0, "none", <<>>)
                       EXCEPT !.data = num]

\* upload_part for an engine that records the part before the client is called.
upload_part_RecordsFirst(data, upload_id, fails) ==
    LET upload_parts == _multipart_uploads[upload_id].Parts
        num == part_num(upload_parts)
    IN  /\ _multipart_uploads' =
               [_multipart_uploads EXCEPT ![upload_id].Parts =
                   Append(@, [ETag |-> ETag(data), PartNumber |-> num])]
        /\ s3' = IF fails THEN s3
                 ELSE [s3 EXCEPT !.parts[upload_id] =
                                     Append(@, [PartNumber |-> num, Body |-> data])]
        /\ s3op' = [EngineOp("upload_part", upload_id, 1, IF fails THEN 1 ELSE 0,
                              IF fails THEN "ClientError" ELSE "none", <<>>)
                       EXCEPT !.data = num]

\* upload_part for an engine that numbers the parts from zero.
upload_part_FromZero(data, upload_id, fails) ==
    LET upload_parts == _multipart_uploads[upload_id].Parts
        num == part_num(upload_parts) - 1
    IN  IF fails
        THEN /\ s3op' = [EngineOp("upload_part", upload_id, 1, 1, "ClientError", <<>>)
                            EXCEPT !.data = num]
             /\ UNCHANGED <<_multipart_uploads, s3>>
        ELSE /\ s3' = [s3 EXCEPT !.parts[upload_id] =
                                      Append(@, [PartNumber |-> num, Body |-> data])]
             /\ _multipart_uploads' =
                    [_multipart_uploads EXCEPT ![upload_id].Parts =
                        Append(@, [ETag |-> ETag(data), PartNumber |-> num])]
             /\ s3op' = [EngineOp("upload_part", upload_id, 1, 0, "none", <<>>)
                            EXCEPT !.data = num]

\* upload_part, lines 137-151, for a session that exists: the part gets the
\* number after that of the last recorded part, the client uploads it, and its
\* tag and number are recorded; when the client raises, nothing is recorded.
upload_part(data, upload_id, fails) ==
    LET upload_parts == _multipart_uploads[upload_id].Parts
        num == part_num(upload_parts)
    IN  IF fails
        THEN /\ s3op' = [EngineOp("upload_part", upload_id, 1, 1, "ClientError", <<>>)
                            EXCEPT !.data = num]
             /\ UNCHANGED <<_multipart_uploads, s3>>
        ELSE /\ s3' = [s3 EXCEPT !.parts[upload_id] =
                                      Append(@, [PartNumber |-> num, Body |-> data])]
             /\ _multipart_uploads' =
                    [_multipart_uploads EXCEPT ![upload_id].Parts =
                        Append(@, [ETag |-> ETag(data), PartNumber |-> num])]
             /\ s3op' = [EngineOp("upload_part", upload_id, 1, 0, "none", <<>>)
                            EXCEPT !.data = num]

\* A call of upload_part, line 138 first: an id without a session is a KeyError.
upload_part_call ==
    /\ s3ops < MaxS3Ops
    /\ \E upload_id \in UploadIds, data \in Bodies, fails \in BOOLEAN :
          IF upload_id \notin DOMAIN _multipart_uploads
          THEN /\ s3op' = EngineOp("upload_part", upload_id, 0, 0, "KeyError", <<>>)
               /\ UNCHANGED <<_multipart_uploads, s3>>
          ELSE upload_part(data, upload_id, fails)
    /\ s3ops' = s3ops + 1
    /\ UNCHANGED <<outsideEngine, _multipart_downloads, s3time>>

\* complete_multipart_upload for an engine that keeps the session.
complete_multipart_upload_Keeps(upload_id, fails) ==
    LET parts == _multipart_uploads[upload_id].Parts
    IN  IF fails
        THEN /\ s3op' = EngineOp("complete_multipart_upload", upload_id, 1, 1, "ClientError",
                                  <<parts>>)
             /\ UNCHANGED <<_multipart_uploads, s3>>
        ELSE /\ s3' = [s3 EXCEPT !.completed = (upload_id :> parts) @@ @]
             /\ s3op' = EngineOp("complete_multipart_upload", upload_id, 1, 0, "none", <<parts>>)
             /\ UNCHANGED _multipart_uploads

\* complete_multipart_upload, lines 153-162, for a session that exists: the
\* recorded parts are sent, and after the client has returned the session is
\* deleted; when the client raises, the session stays.
complete_multipart_upload(upload_id, fails) ==
    LET parts == _multipart_uploads[upload_id].Parts
    IN  IF fails
        THEN /\ s3op' = EngineOp("complete_multipart_upload", upload_id, 1, 1, "ClientError",
                                  <<parts>>)
             /\ UNCHANGED <<_multipart_uploads, s3>>
        ELSE /\ s3' = [s3 EXCEPT !.completed = (upload_id :> parts) @@ @]
             /\ _multipart_uploads' =
                    [id \in DOMAIN _multipart_uploads \ {upload_id} |->
                        _multipart_uploads[id]]
             /\ s3op' = EngineOp("complete_multipart_upload", upload_id, 1, 0, "none", <<parts>>)

\* A call of complete_multipart_upload, line 154 first: an id without a
\* session is a KeyError.
complete_multipart_upload_call ==
    /\ s3ops < MaxS3Ops
    /\ \E upload_id \in UploadIds, fails \in BOOLEAN :
          IF upload_id \notin DOMAIN _multipart_uploads
          THEN /\ s3op' = EngineOp("complete_multipart_upload", upload_id, 0, 0, "KeyError",
                                    <<>>)
               /\ UNCHANGED <<_multipart_uploads, s3>>
          ELSE complete_multipart_upload(upload_id, fails)
    /\ s3ops' = s3ops + 1
    /\ UNCHANGED <<outsideEngine, _multipart_downloads, s3time>>

\* create_multipart_download, lines 164-171: get_object answers with a stream,
\* which is entered under an id made of the key and the time.
create_multipart_download ==
    /\ s3ops < MaxS3Ops
    /\ \E fails \in BOOLEAN :
          LET remote_path == lstrip(DownloadPath)
              download_id == <<remote_path, s3time>>
          IN  IF fails
              THEN /\ s3op' = EngineOp("create_multipart_download", 0, 1, 1, "ClientError",
                                        <<<<remote_path>>>>)
                   /\ UNCHANGED _multipart_downloads
              ELSE /\ _multipart_downloads' =
                          (download_id :> [pos |-> 0, closed |-> FALSE])
                             @@ [id \in DOMAIN _multipart_downloads \ {download_id} |->
                                    _multipart_downloads[id]]
                   /\ s3op' = EngineOp("create_multipart_download", 0, 1, 0, "none",
                                        <<<<remote_path>>>>)
    /\ s3ops' = s3ops + 1
    /\ UNCHANGED <<outsideEngine, _multipart_uploads, s3time, s3>>

\* download_part, lines 173-176: a part_len that is given and not zero is
\* replaced by the default; the stream of the session is read; an id without
\* a session is a KeyError.
download_part ==
    /\ s3ops < MaxS3Ops
    /\ \E download_id \in DownloadIds, given \in {NoneLen, 0, 1}, fails \in BOOLEAN :
          LET part_len == IF given # NoneLen /\ given # 0
                          THEN DEFAULT_DOWNLOAD_PART_LEN ELSE given
          IN  IF download_id \notin DOMAIN _multipart_downloads
              THEN /\ s3op' = EngineOp("download_part", download_id, 0, 0, "KeyError", <<>>)
                   /\ UNCHANGED _multipart_downloads
              ELSE IF fails \/ _multipart_downloads[download_id].closed
              THEN /\ s3op' = EngineOp("download_part", download_id, 1, 1, "ClientError", <<>>)
                   /\ UNCHANGED _multipart_downloads
              ELSE LET pos == _multipart_downloads[download_id].pos
                   IN  /\ _multipart_downloads' =
                              [_multipart_downloads EXCEPT
                                  ![download_id].pos = pos + read(pos, part_len)]
                       /\ s3op' = [EngineOp("download_part", download_id, 1, 0, "none", <<>>)
                                      EXCEPT !.data = read(pos, part_len),
                                             !.args = <<given>>]
    /\ s3ops' = s3ops + 1
    /\ UNCHANGED <<outsideEngine, _multipart_uploads, s3time, s3>>

\* complete_multipart_download, lines 178-180: the stream is closed and the
\* session is deleted; when close raises, the session stays; an id without a
\* session is a KeyError.
complete_multipart_download ==
    /\ s3ops < MaxS3Ops
    /\ \E download_id \in DownloadIds, fails \in BOOLEAN :
          IF download_id \notin DOMAIN _multipart_downloads
          THEN /\ s3op' = EngineOp("complete_multipart_download", download_id, 0, 0, "KeyError",
                                    <<>>)
               /\ UNCHANGED _multipart_downloads
          ELSE IF fails
          THEN /\ s3op' = EngineOp("complete_multipart_download", download_id, 1, 1, "ClientError",
                                    <<>>)
               /\ UNCHANGED _multipart_downloads
          ELSE /\ _multipart_downloads' =
                      [id \in DOMAIN _multipart_downloads \ {download_id} |->
                          _multipart_downloads[id]]
               /\ s3op' = EngineOp("complete_multipart_download", download_id, 1, 0, "none",
                                    <<>>)
    /\ s3ops' = s3ops + 1
    /\ UNCHANGED <<outsideEngine, _multipart_uploads, s3time, s3>>

\* The S3 engine and its single caller.
EngineNext ==
    \/ S3Tick
    \/ EngineCall
    \/ list_dir
    \/ delete_files_call
    \/ delete_bulk
    \/ create_multipart_upload
    \/ upload_part_call
    \/ complete_multipart_upload_call
    \/ create_multipart_download
    \/ download_part
    \/ complete_multipart_download

EngineSpec == Init /\ [][EngineNext]_vars

(***************************************************************************)
(* util.retry                                                              *)
(***************************************************************************)
\* A function wrapped by retry(exception_types, max_attempts) is called.
RetryCall ==
    /\ retry_state.status # "running"
    /\ \E decorator \in RetryDecorators :
          retry_state' = [exception_types |-> decorator.exception_types,
                          max_attempts |-> decorator.max_attempts,
                          outcomes |-> <<>>, status |-> "running", raised |-> 0]
    /\ UNCHANGED outsideRetry

\* after_attempt for a decorator that never stops retrying.
after_attempt_NoStop(state, result) ==
    LET outcomes == Append(state.outcomes, result)
    IN  IF result = "ok"
        THEN [state EXCEPT !.outcomes = outcomes, !.status = "returned"]
        ELSE IF ~isinstance(result, state.exception_types)
        THEN [state EXCEPT !.outcomes = outcomes, !.status = "raised",
                           !.raised = Len(outcomes)]
        ELSE [state EXCEPT !.outcomes = outcomes]

\* What tenacity does after an invocation, lines 133-139: a result is
\* returned; an exception that is not of the configured types is raised; one
\* that is, is raised when this was the last attempt (reraise=True) and is
\* followed by another invocation otherwise.
after_attempt(state, result) ==
    LET outcomes == Append(state.outcomes, result)
    IN  IF result = "ok"
        THEN [state EXCEPT !.outcomes = outcomes, !.status = "returned"]
        ELSE IF ~isinstance(result, state.exception_types)
        THEN [state EXCEPT !.outcomes = outcomes, !.status = "raised",
                           !.raised = Len(outcomes)]
        ELSE IF Len(outcomes) >= state.max_attempts
        THEN [state EXCEPT !.outcomes = outcomes, !.status = "raised",
                           !.raised = Len(outcomes)]
        ELSE [state EXCEPT !.outcomes = outcomes]

\* One invocation of the wrapped function: it returns or raises.
RetryAttempt ==
    /\ retry_state.status = "running"
    /\ \E result \in {"ok"} \cup ExceptionNames :
          retry_state' = after_attempt(retry_state, result)
    /\ UNCHANGED outsideRetry

\* Calls of functions wrapped by the retry decorator.
RetryNext ==
    \/ RetryCall
    \/ RetryAttempt

RetrySpec == Init /\ [][RetryNext]_vars

(***************************************************************************)
(* ClickhouseCTL: snapshots and their removal                              *)
(***************************************************************************)
\* freeze_table, lines 205-213: the server copies the table's active parts
\* to shadow/<increment>/<relative data path>, and the parts found there are
\* returned.
freeze_table ==
    /\ \E table \in Tables :
          LET copied == UNION { Ancestors(realparts(join(SnapshotPath(table), part))) :
                                  part \in listdir(table.data_path) }
              after == fs \cup Ancestors(realparts(_shadow_data_path)) \cup copied
          IN  /\ fs' = after
              /\ freezed_parts' = _get_freezed_parts(after, table)
    /\ UNCHANGED <<outsideControl, ctl_op>>

\* _remove_shadow_data without the assertion of line 369.
_remove_shadow_data_Unasserted(op, rmpath, fails) ==
    IF ~exists(rmpath)
    THEN /\ ctl_op' = [op |-> op, path |-> rmpath, raised |-> "none", attempts |-> 1]
         /\ fs' = fs
    ELSE IF fails
    THEN /\ ctl_op' = [op |-> op, path |-> rmpath, raised |-> "OSError",
                       attempts |-> max_attempts]
         /\ fs' = fs
    ELSE /\ ctl_op' = [op |-> op, path |-> rmpath, raised |-> "none", attempts |-> 1]
         /\ fs' = fs \ Tree(rmpath)

\* _remove_shadow_data, lines 367-372, as called by op: the assertion, then
\* rmtree if the path exists.  An OSError of rmtree is retried by @retry(OSError)
\* until the attempts are used up; an AssertionError is not.
_remove_shadow_data(op, rmpath, fails) ==
    IF ~startswith(rmpath, _shadow_data_path)
    THEN /\ ctl_op' = [op |-> op, path |-> rmpath, raised |-> "AssertionError",
                       attempts |-> 1]
         /\ fs' = fs
    ELSE IF ~exists(rmpath)
    THEN /\ ctl_op' = [op |-> op, path |-> rmpath, raised |-> "none", attempts |-> 1]
         /\ fs' = fs
    ELSE IF fails
    THEN /\ ctl_op' = [op |-> op, path |-> rmpath, raised |-> "OSError",
                       attempts |-> max_attempts]
         /\ fs' = fs
    ELSE /\ ctl_op' = [op |-> op, path |-> rmpath, raised |-> "none", attempts |-> 1]
         /\ fs' = fs \ Tree(rmpath)

\* remove_freezed_data, lines 215-220.
remove_freezed_data ==
    /\ \E fails \in BOOLEAN :
          _remove_shadow_data("remove_freezed_data", _shadow_data_path, fails)
    /\ UNCHANGED <<outsideControl, freezed_parts>>

\* remove_freezed_part, lines 222-227, for a part freeze_table returned or a
\* part the caller made up.
remove_freezed_part ==
    /\ \E part \in freezed_parts \cup ForeignParts, fails \in BOOLEAN :
          _remove_shadow_data("remove_freezed_part", part.path, fails)
    /\ UNCHANGED <<outsideControl, freezed_parts>>

ControlNext ==
    \/ freeze_table
    \/ remove_freezed_data
    \/ remove_freezed_part

ControlSpec == ControlInit /\ [][ControlNext]_vars

(***************************************************************************)
(* PartMetadata.load and from_frozen_part                                  *)
(***************************************************************************)
\* PartMetadata.load is called with the document at hand.
Load ==
    /\ \E part_name \in {"p1", "p2"} :
          loaded' = load("db1", "t1", part_name, raw_input)
    /\ UNCHANGED <<outsideMetadata, raw_input, frozen_input>>

\* PartMetadata.from_frozen_part is called with the frozen part at hand.
FromFrozenPart ==
    /\ loaded' = from_frozen_part(frozen_input)
    /\ UNCHANGED <<outsideMetadata, raw_input, frozen_input>>

MetadataNext ==
    \/ Load
    \/ FromFrozenPart

MetadataSpec == MetadataInit /\ [][MetadataNext]_vars

(***************************************************************************)
(* ExecPool as a context manager                                           *)
(***************************************************************************)
\* ExecPool.__enter__, lines 127-128: the with statement is entered.
__enter__ ==
    /\ scope = "outside"
    /\ scope' = "body"
    /\ UNCHANGED <<outsideScope, poolVars, body_exc, shutdowns, executor_down, propagated>>

\* The body of the with statement ends normally.
BodyReturns ==
    /\ scope = "body"
    /\ scope' = "leaving"
    /\ body_exc' = FALSE
    /\ UNCHANGED <<outsideScope, poolVars, shutdowns, executor_down, propagated>>

\* The body of the with statement raises.
BodyRaises ==
    /\ scope = "body"
    /\ scope' = "leaving"
    /\ body_exc' = TRUE
    /\ UNCHANGED <<outsideScope, poolVars, shutdowns, executor_down, propagated>>

\* ExecPool.shutdown, lines 38-42, as called with graceful=True: the executor's
\* shutdown(wait=True) returns when no job is running, or it raises.
shutdown(raises) ==
    /\ shutdowns' = Append(shutdowns, [graceful |-> TRUE, raised |-> raises])
    /\ ~raises => \A f \in 1..Len(futures) : futures[f] # "running"
    /\ executor_down' = (executor_down \/ ~raises)

\* __exit__ for a context manager that returns True.
__exit__Suppressing ==
    /\ scope = "leaving"
    /\ \E raises \in BOOLEAN : shutdown(raises)
    /\ scope' = "exited"
    /\ propagated' = "none"
    /\ UNCHANGED <<outsideScope, poolVars, body_exc>>

\* ExecPool.__exit__, lines 130-135: shutdown(graceful=True) is called, an
\* Exception it raises is dropped, and False is returned, so that an exception
\* of the body goes on to the caller of the with statement.
__exit__ ==
    /\ scope = "leaving"
    /\ \E raises \in BOOLEAN : shutdown(raises)
    /\ scope' = "exited"
    /\ propagated' = IF body_exc THEN "body" ELSE "none"
    /\ UNCHANGED <<outsideScope, poolVars, body_exc>>

\* ExecPool.__del__, lines 118-125: the pool object is collected;
\* shutdown(graceful=True) is called and an Exception it raises is dropped.
__del__ ==
    /\ scope \in {"outside", "exited"}
    /\ \E raises \in BOOLEAN : shutdown(raises)
    /\ scope' = "deleted"
    /\ UNCHANGED <<outsideScope, poolVars, body_exc, propagated>>

(***************************************************************************)
(* ExecPool(executor)                                                      *)
(***************************************************************************)
\* The number the warm-up future goes by; the futures of jobs count from 1.
WarmupFuture == 0

\* ExecPool.__init__, lines 31-36, up to the submit of _start_processes
\* (line 66): the registry is created empty, the executor is kept, and
\* ExecPool._start is handed to the executor directly.
__init__ ==
    /\ init_pc = "new"
    /\ future_to_job' = <<>>
    /\ warmup' = "running"
    /\ init_pc' = "blocked"
    /\ UNCHANGED <<outsideConstruct, futures, collect, collects, results, callbacks,
                   outcome, lastSubmit>>

\* ExecPool._start, lines 61-63, run by a worker the executor has started.
_start ==
    /\ warmup = "running"
    /\ warmup' = "done"
    /\ UNCHANGED <<outsideConstruct, poolVars, init_pc>>

\* The executor cannot run the task (its workers do not start): the future
\* ends with an exception.
_start_broken ==
    /\ warmup = "running"
    /\ warmup' = "failed"
    /\ UNCHANGED <<outsideConstruct, poolVars, init_pc>>

\* _start_processes for a constructor that does not wait for the future.
_start_processes_NoWait ==
    /\ init_pc = "blocked"
    /\ init_pc' = "returned"
    /\ UNCHANGED <<outsideConstruct, poolVars, warmup>>

\* _start_processes, line 67, and the return of __init__: future.result()
\* returns when the future is done, or raises its exception.
_start_processes ==
    /\ init_pc = "blocked"
    /\ warmup \in {"done", "failed"}
    /\ init_pc' = IF warmup = "done" THEN "returned" ELSE "raised"
    /\ UNCHANGED <<outsideConstruct, poolVars, warmup>>

\* A pool from its construction on, the jobs submitted to it, the executor's
\* workers and the collecting calls.
ConstructNext ==
    \/ __init__
    \/ _start
    \/ _start_broken
    \/ _start_processes
    \/ Submit
    \/ JobSucceeds
    \/ JobFails
    \/ WaitAllBegin
    \/ AsCompletedBegin
    \/ CollectResult
    \/ CollectSkip
    \/ CollectRaise
    \/ CollectExhausted

ConstructSpec == New /\ [][ConstructNext]_vars

\* A pool used in a with statement, the jobs submitted to it and the
\* executor's workers.
ScopeNext ==
    \/ __enter__
    \/ Submit
    \/ SubmitDuplicate
    \/ JobSucceeds
    \/ JobFails
    \/ BodyReturns
    \/ BodyRaises
    \/ __exit__
    \/ __del__

ScopeSpec == Init /\ [][ScopeNext]_vars

\* The execution pool, its callers and the executor's workers.
PoolNext ==
    \/ Submit
    \/ SubmitDuplicate
    \/ JobSucceeds
    \/ JobFails
    \/ WaitAllBegin
    \/ AsCompletedBegin
    \/ CollectResult
    \/ CollectSkip
    \/ CollectRaise
    \/ CollectTimeout
    \/ CollectStop
    \/ CollectExhausted

PoolSpec == Init /\ [][PoolNext]_vars

(***************************************************************************)
(* Properties                                                              *)
(***************************************************************************)
\* The step just taken is BackupPart's.
PartStepTaken == pc = "part_loop" /\ partIdx <= Len(parts_rows) /\ partIdx' = partIdx + 1

\* The entry BackupPart appended.
NewEntry == backup_meta'.parts[Len(backup_meta'.parts)]

EntryOf(meta, p) ==
    { meta.parts[i] : i \in { j \in 1..Len(meta.parts) :
                                /\ meta.parts[j].database = p.database
                                /\ meta.parts[j].table = p.table
                                /\ meta.parts[j].name = p.name } }

\* Candidate backup bm holds an entry for part p that is not a link, agrees with
\* p on checksum, size and files, and all of whose files are in storage.
Eligible(bm, p) ==
    \E e \in EntryOf(bm, p) :
        /\ e.link = NoLink
        /\ e.checksum = p.checksum
        /\ e.size = p.size
        /\ e.files = p.files
        /\ \A i \in 1..Len(e.paths) : e.paths[i] \in objects

EligibleCandidates(p) ==
    { i \in 1..Len(existing_backups) : Eligible(existing_backups[i], p) }

\* C1: with deduplication enabled, a part for which some loaded candidate holds a
\* matching, non-link entry whose files are all in storage gets an entry with a
\* link, and save_part_data is not called for it (no transfer is submitted).
C1_EligiblePartIsLinked ==
    [][ (PartStepTaken /\ deduplicate_parts /\ EligibleCandidates(parts_rows[partIdx]) # {})
            => /\ Len(backup_meta'.parts) = Len(backup_meta.parts) + 1
               /\ NewEntry.name = parts_rows[partIdx].name
               /\ NewEntry.table = parts_rows[partIdx].table
               /\ NewEntry.link # NoLink
               /\ savedParts' = savedParts
               /\ outstanding' = outstanding ]_vars

C1_Witness ==
    /\ pc = "part_loop"
    /\ deduplicate_parts
    /\ partIdx > 1
    /\ backup_meta.parts[Len(backup_meta.parts)].link # NoLink
    /\ EligibleCandidates(parts_rows[partIdx - 1]) # {}
    /\ savedParts = <<>>

\* C2: a part is linked to candidate C only if C's entry for it exists, is not a
\* link, equals the part on checksum, size and files and has all its files in
\* storage; every other part is transferred fresh by save_part_data.
C2_NoFalsePositive ==
    [][ PartStepTaken =>
          LET p == parts_rows[partIdx]
          IN  /\ NewEntry.link # NoLink =>
                    \E i \in EligibleCandidates(p) : existing_backups[i].path = NewEntry.link
              /\ EligibleCandidates(p) = {} =>
                    /\ NewEntry.link = NoLink
                    /\ savedParts' = Append(savedParts, <<p.database, p.table, p.name>>)
                    /\ \E t \in outstanding' \ outstanding :
                          t.key = <<p.database, p.table, p.name>> ]_vars

\* A candidate with the same checksum and another size was passed over.
C2_Witness ==
    /\ pc = "part_loop"
    /\ partIdx > 1
    /\ backup_meta.parts[Len(backup_meta.parts)].link = NoLink
    /\ \E i \in 1..Len(existing_backups) :
          \E e \in EntryOf(existing_backups[i], parts_rows[partIdx - 1]) :
              /\ e.link = NoLink
              /\ e.checksum = parts_rows[partIdx - 1].checksum
              /\ e.size # parts_rows[partIdx - 1].size

\* C3: a linked part's target is a candidate of greatest end_time among the
\* candidates that pass the presence, not-a-link, equality and existence checks.
C3_NewestEligibleWins ==
    [][ (PartStepTaken /\ NewEntry.link # NoLink) =>
          LET p == parts_rows[partIdx]
          IN  \E i \in EligibleCandidates(p) :
                  /\ existing_backups[i].path = NewEntry.link
                  /\ \A j \in EligibleCandidates(p) :
                        existing_backups[j].end_time <= existing_backups[i].end_time ]_vars

C3_Witness ==
    /\ pc = "part_loop"
    /\ partIdx > 1
    /\ backup_meta.parts[Len(backup_meta.parts)].link # NoLink
    /\ Cardinality(EligibleCandidates(parts_rows[partIdx - 1])) >= 2

\* The documents that exist: the persisted ones and the one being built.
KnownMetas == { metaStore[n] : n \in DOMAIN metaStore } \cup {backup_meta}

\* C4: every entry with a link points to a persisted backup whose entry for the
\* same database/table/part has no link.
C4_NoLinkChains ==
    \A m \in KnownMetas :
        \A i \in 1..Len(m.parts) :
            m.parts[i].link # NoLink =>
                \E n \in DOMAIN metaStore :
                    /\ metaStore[n].path = m.parts[i].link
                    /\ EntryOf(metaStore[n], m.parts[i]) # {}
                    /\ \A e \in EntryOf(metaStore[n], m.parts[i]) : e.link = NoLink

\* Three generations: a link made while an older backup already held a link.
C4_Witness ==
    \E n \in DOMAIN metaStore :
        \E i \in 1..Len(metaStore[n].parts) :
            /\ metaStore[n].parts[i].link # NoLink
            /\ \E k \in DOMAIN metaStore :
                  /\ k # n
                  /\ \E e \in EntryOf(metaStore[k], metaStore[n].parts[i]) :
                        e.link # NoLink

Stamped == backup_meta.end_time # NoTime

Persisted == backup_meta.name \in DOMAIN metaStore

AllDatabasesCompleted == dbIdx > Len(databases)

RunEnded == pc \in {"done", "failed"}

\* C5 as claimed: a run is stamped and persisted if and only if backup_database
\* completed for every requested database.
C5_Original ==
    RunEnded => ((Stamped /\ Persisted) <=> AllDatabasesCompleted)

\* C5 amended: end_time is stamped only after backup_database completed for every
\* requested database and the final remove_shadow_data succeeded, the document is
\* persisted only if it was stamped, a run that ends without error is stamped and
\* persisted, a run that raised before mark_end is neither, and a stamped
\* end_time is never stamped again.
C5_StampedOnlyAfterAllSteps ==
    /\ [](/\ Stamped => /\ AllDatabasesCompleted
                        /\ failedAt \notin {"freeze", "transfer", "remove_shadow_data"}
                        /\ pc \in {"done", "failed"}
          /\ Persisted => Stamped
          /\ pc = "done" => Stamped /\ Persisted
          /\ (pc = "failed" /\ failedAt \in {"freeze", "transfer", "remove_shadow_data"})
                => ~Stamped /\ ~Persisted)
    /\ [][ (Stamped /\ backup_meta'.name = backup_meta.name)
              => backup_meta'.end_time = backup_meta.end_time ]_vars

C5_Witness ==
    /\ pc = "failed"
    /\ failedAt = "remove_shadow_data"
    /\ AllDatabasesCompleted
    /\ ~Stamped

\* Runs that ended with an error: started, over, and never persisted.
FailedRuns ==
    { n \in 1..runs : n \notin DOMAIN metaStore /\ (n < runs \/ pc = "failed") }

LoadedNames(backups) == { backups[i].name : i \in 1..Len(backups) }

\* C6: a run that raised is neither among the names list() returns nor among the
\* candidates a later run loads for deduplication.
C6_FailedRunInvisible ==
    \A n \in FailedRuns :
        /\ n \notin SeqToSet(list)
        /\ n \notin LoadedNames(_load_existing_backups(now - DedupAgeLimit))

RecordedDatabases == SeqToSet(r_backup_meta.databases)

MissingRequested == { d \in SeqToSet(r_databases) : d \notin RecordedDatabases }

NothingRestored ==
    /\ restored_sql = <<>>
    /\ downloading = {}
    /\ detached = {}
    /\ chowned = {}
    /\ attached = <<>>

\* C7: a restore asked for a database the backup does not record fails before any
\* schema is applied or any part is downloaded or attached, and its error report
\* names exactly the missing databases.
C7_MissingDatabaseFailsFast ==
    (rpc # "idle" /\ MissingRequested # {}) =>
        /\ rpc = "failed"
        /\ NothingRestored
        /\ SeqToSet(missed_logged) = MissingRequested

C7_Witness ==
    /\ rpc = "failed"
    /\ MissingRequested # {}
    /\ MissingRequested # SeqToSet(r_databases)
    /\ Len(missed_logged) = 2

\* C8: validation of an explicit database list fails if and only if some listed
\* database is absent from the backup; when all are recorded the restore goes on.
C8_ValidationFailsIffMissing ==
    (rpc = "failed" /\ NothingRestored) <=> (rpc # "idle" /\ MissingRequested # {})

SqlApplied(path) == \E i \in 1..Len(restored_sql) : restored_sql[i] = path

SqlIndex(path) == CHOOSE i \in 1..Len(restored_sql) : restored_sql[i] = path

\* C9: when a part is attached, the sql of its database and, after it, the sql of
\* every table the backup records for that database have been applied.
C9_SchemaBeforeAttach ==
    \A a \in 1..Len(attached) :
        LET db == attached[a][1]
        IN  /\ \E d \in 1..Len(r_backup_meta.db_sql) :
                  /\ r_backup_meta.db_sql[d].database = db
                  /\ SqlApplied(r_backup_meta.db_sql[d].path)
                  /\ \A t \in 1..Len(r_backup_meta.tables_sql) :
                        r_backup_meta.tables_sql[t].database = db =>
                            /\ SqlApplied(r_backup_meta.tables_sql[t].path)
                            /\ SqlIndex(r_backup_meta.db_sql[d].path)
                                 < SqlIndex(r_backup_meta.tables_sql[t].path)
            /\ \E t \in 1..Len(r_backup_meta.tables_sql) :
                  /\ r_backup_meta.tables_sql[t].database = db
                  /\ r_backup_meta.tables_sql[t].table = attached[a][2]
                  /\ SqlApplied(r_backup_meta.tables_sql[t].path)

C9_Witness ==
    /\ Len(attached) >= 1
    /\ attached[1][2] = "t1"
    /\ Len(restored_sql) = 3

\* Names of the parts the backup records for a table, in metadata order.
RecordedParts(db, table) ==
    LET ofTable == SelectSeq(r_backup_meta.parts,
                             LAMBDA e : e.database = db /\ e.table = table)
    IN  [i \in 1..Len(ofTable) |-> ofTable[i].name]

AttachedOf(db, table) ==
    LET ofTable == SelectSeq(attached, LAMBDA a : a[1] = db /\ a[2] = table)
    IN  [i \in 1..Len(ofTable) |-> ofTable[i][3]]

\* C10: per table, all downloads are submitted and awaited, then ownership is
\* fixed, then the parts are attached in metadata order; no part is attached, and
\* ownership is not fixed, while a download of the table is outstanding.
C10_DownloadWaitChownAttach ==
    /\ \A a \in 1..Len(attached) : <<attached[a][1], attached[a][2]>> \in chowned
    /\ \A c \in chowned :
          /\ \A i \in 1..Len(RecordedParts(c[1], c[2])) :
                <<c[1], c[2], RecordedParts(c[1], c[2])[i]>> \in detached
          /\ \A t \in downloading : <<t.key[1], t.key[2]>> # c
          /\ Len(AttachedOf(c[1], c[2])) <= Len(RecordedParts(c[1], c[2]))
          /\ AttachedOf(c[1], c[2]) =
                SubSeq(RecordedParts(c[1], c[2]), 1, Len(AttachedOf(c[1], c[2])))
    /\ rpc \in {"chown", "attach"} => downloading = {}

C10_Witness ==
    /\ rpc = "attach"
    /\ Len(attached) = 2
    /\ attached[1] = <<"db1", "t1", "p1">>
    /\ attached[2] = <<"db1", "t1", "p2">>

\* The persisted entry that owns the files a recorded part is restored from: the
\* backup named by the first component of the part's storage paths.
OwnerEntries(e) ==
    { o \in UNION { EntryOf(metaStore[n], e) : n \in DOMAIN metaStore } :
          o.paths = e.paths /\ o.link = NoLink }

RecordedKeys ==
    { <<r_backup_meta.parts[i].database, r_backup_meta.parts[i].table,
        r_backup_meta.parts[i].name>> : i \in 1..Len(r_backup_meta.parts) }

\* C11: a restore with databases=None that returns has applied the sql of every
\* recorded database and, for every recorded table, attached exactly the recorded
\* parts, each once and in metadata order; no restore ever attaches a part twice
\* or a part the backup does not record; and the files of every recorded part
\* are those of a stored entry that agrees with it on checksum, size and files.
C11_RestoreAllAttachesRecordedParts ==
    /\ \A a, b \in 1..Len(attached) : attached[a] = attached[b] => a = b
    /\ \A a \in 1..Len(attached) : attached[a] \in RecordedKeys
    /\ \A i \in 1..Len(r_backup_meta.parts) :
          \E o \in OwnerEntries(r_backup_meta.parts[i]) :
              /\ o.checksum = r_backup_meta.parts[i].checksum
              /\ o.size = r_backup_meta.parts[i].size
              /\ o.files = r_backup_meta.parts[i].files
    /\ rpc = "done" =>
          /\ r_databases = get_databases(r_backup_meta)
          /\ \A d \in 1..Len(r_backup_meta.databases) :
                SqlApplied(get_db_sql_path(r_backup_meta, r_backup_meta.databases[d]))
          /\ \A t \in 1..Len(r_backup_meta.tables_sql) :
                AttachedOf(r_backup_meta.tables_sql[t].database,
                           r_backup_meta.tables_sql[t].table)
                  = RecordedParts(r_backup_meta.tables_sql[t].database,
                                  r_backup_meta.tables_sql[t].table)
          /\ Len(attached) = Len(r_backup_meta.parts)

\* A backup holding links was restored in full.
C11_Witness ==
    /\ rpc = "done"
    /\ Len(attached) = 3
    /\ \E i \in 1..Len(r_backup_meta.parts) : r_backup_meta.parts[i].link # NoLink

\* The table the run is working on.
CurrentTable == <<databases[dbIdx], tables[tblIdx]>>

\* C12: transfers are outstanding only while the run is in the part loop of the
\* table they belong to; the run moves to another table or database, and records
\* a database's sql path, only when no transfer is outstanding; tables and
\* databases are taken one at a time, in order.
C12_PerTableBarrier ==
    /\ [](outstanding # {} =>
             /\ pc = "part_loop"
             /\ \A t \in outstanding : <<t.key[1], t.key[2]>> = CurrentTable)
    /\ [][ (tblIdx' # tblIdx \/ dbIdx' # dbIdx \/ backup_meta'.db_sql # backup_meta.db_sql)
              => /\ outstanding = {}
                 /\ outstanding' = {} ]_vars
    /\ [][ (runs' = runs /\ tblIdx' # tblIdx) =>
              \/ tblIdx' = tblIdx + 1 /\ dbIdx' = dbIdx
              \/ tblIdx' = 1 /\ dbIdx' = dbIdx ]_vars
    /\ [][ (runs' = runs /\ dbIdx' # dbIdx) =>
              dbIdx' = dbIdx + 1 /\ tblIdx > Len(tables) ]_vars

\* The second table's transfer is outstanding after the first table's two
\* transfers were joined and stored.
C12_Witness ==
    /\ pc = "part_loop"
    /\ tblIdx = 2
    /\ outstanding # {}
    /\ Len(savedParts) = 3
    /\ \A f \in {"f1", "f2"}, part \in {"p1", "p2"} :
          PartFilePath(backup_meta.name, "db1", "t1", part, f) \in objects

\* Every part enumerated for the table has an entry in meta whose files are all
\* in storage, and no transfer of the table is outstanding.
TableDataStored(meta, db, table, stored, transfers) ==
    /\ \A t \in transfers : <<t.key[1], t.key[2]>> # <<db, table>>
    /\ \A k \in 1..Len(PartNames(db, table)) :
          \E i \in 1..Len(meta.parts) :
              /\ meta.parts[i].database = db
              /\ meta.parts[i].table = table
              /\ meta.parts[i].name = PartNames(db, table)[k]
              /\ \A j \in 1..Len(meta.parts[i].paths) : meta.parts[i].paths[j] \in stored

\* C13 as claimed: while a run is in progress, a table whose sql path is in the
\* run's metadata has all its part data stored and no transfer outstanding.
C13_Original ==
    pc \in {"db_loop", "table_loop", "part_loop", "mark_end"} =>
        \A i \in 1..Len(backup_meta.tables_sql) :
            TableDataStored(backup_meta, backup_meta.tables_sql[i].database,
                            backup_meta.tables_sql[i].table, objects, outstanding)

\* C13 amended: a database's sql path is recorded only when the data of every
\* table recorded for that database is stored and no transfer is outstanding,
\* and a metadata document is persisted only in that condition for all its
\* tables; a table's own sql path is recorded before its parts are processed.
C13_DatabasePointerAfterData ==
    /\ [][ (runs' = runs /\ backup_meta'.db_sql # backup_meta.db_sql) =>
              /\ outstanding = {}
              /\ \A i \in 1..Len(backup_meta'.tables_sql) :
                    TableDataStored(backup_meta', backup_meta'.tables_sql[i].database,
                                    backup_meta'.tables_sql[i].table, objects',
                                    outstanding') ]_vars
    /\ [][ metaStore' # metaStore =>
              /\ outstanding = {}
              /\ \A n \in DOMAIN metaStore' \ DOMAIN metaStore :
                    \A i \in 1..Len(metaStore'[n].tables_sql) :
                        /\ TableDataStored(metaStore'[n], metaStore'[n].tables_sql[i].database,
                                           metaStore'[n].tables_sql[i].table, objects',
                                           outstanding')
                        /\ \E d \in 1..Len(metaStore'[n].db_sql) :
                              metaStore'[n].db_sql[d].database
                                = metaStore'[n].tables_sql[i].database ]_vars
    /\ [][ (pc = "table_loop" /\ pc' = "part_loop") =>
              /\ Len(backup_meta'.tables_sql) = Len(backup_meta.tables_sql) + 1
              /\ backup_meta'.parts = backup_meta.parts ]_vars

\* A table's sql path is in the metadata while one of its transfers is outstanding.
C13_Witness ==
    /\ pc = "part_loop"
    /\ \E t \in outstanding :
          \E i \in 1..Len(backup_meta.tables_sql) :
              /\ backup_meta.tables_sql[i].database = t.key[1]
              /\ backup_meta.tables_sql[i].table = t.key[2]

\* C14: once freeze_table has raised for a table the run is over: the metadata
\* holds no part of that table, save_part_data was not called for it, no later
\* table or database was begun, no transfer is outstanding, end_time is not
\* stamped and the document is not persisted; nothing of this changes afterwards.
C14_FreezeFailureAborts ==
    /\ [](failedAt = "freeze" =>
             /\ pc = "failed"
             /\ \A i \in 1..Len(backup_meta.parts) :
                   <<backup_meta.parts[i].database, backup_meta.parts[i].table>> # CurrentTable
             /\ \A i \in 1..Len(savedParts) :
                   <<savedParts[i][1], savedParts[i][2]>> # CurrentTable
             /\ backup_meta.databases = SubSeq(databases, 1, dbIdx)
             /\ Len(backup_meta.tables_sql) = tblIdx
             /\ Len(backup_meta.db_sql) = dbIdx - 1
             /\ outstanding = {}
             /\ ~Stamped
             /\ ~Persisted)
    /\ [][ (failedAt = "freeze" /\ runs' = runs) =>
              /\ backup_meta' = backup_meta
              /\ savedParts' = savedParts
              /\ outstanding' = outstanding
              /\ DOMAIN metaStore' = DOMAIN metaStore
              /\ pc' = pc ]_vars

\* The freeze of the first table failed while a second table and a second
\* database were still to come.
C14_Witness ==
    /\ failedAt = "freeze"
    /\ pc = "failed"
    /\ tblIdx = 1
    /\ Len(tables) = 2
    /\ dbIdx = 1
    /\ Len(databases) = 2

\* Rows and bytes of the live parts the entries name.
RECURSIVE SumRows(_)
SumRows(entries) ==
    IF entries = <<>> THEN 0
    ELSE chData[<<Head(entries).database, Head(entries).table, Head(entries).name>>].rows
         + SumRows(Tail(entries))

RECURSIVE SumBytes(_)
SumBytes(entries) ==
    IF entries = <<>> THEN 0
    ELSE chData[<<Head(entries).database, Head(entries).table, Head(entries).name>>].size
         + SumBytes(Tail(entries))

\* The parts enumerated so far by the run, in order: all parts of the tables
\* already left behind and the first partIdx - 1 parts of the current table.
RECURSIVE EnumeratedOfTables(_, _)
EnumeratedOfTables(db, tbls) ==
    IF tbls = <<>> THEN <<>>
    ELSE [i \in 1..Len(PartNames(db, Head(tbls))) |->
              <<db, Head(tbls), PartNames(db, Head(tbls))[i]>>]
         \o EnumeratedOfTables(db, Tail(tbls))

RECURSIVE EnumeratedOfDatabases(_)
EnumeratedOfDatabases(dbs) ==
    IF dbs = <<>> THEN <<>>
    ELSE EnumeratedOfTables(Head(dbs), TablesOrdered(Head(dbs)))
         \o EnumeratedOfDatabases(Tail(dbs))

EnumeratedSoFar ==
    EnumeratedOfDatabases(SubSeq(databases, 1, dbIdx - 1))
    \o (IF pc \in {"table_loop", "part_loop"}
        THEN EnumeratedOfTables(databases[dbIdx], SubSeq(tables, 1, tblIdx - 1))
        ELSE <<>>)
    \o (IF pc = "part_loop"
        THEN [i \in 1..(partIdx - 1) |->
                 <<parts_rows[i].database, parts_rows[i].table, parts_rows[i].name>>]
        ELSE <<>>)

EntryKeys(meta) ==
    [i \in 1..Len(meta.parts) |->
        <<meta.parts[i].database, meta.parts[i].table, meta.parts[i].name>>]

\* C15: while a run is in progress its metadata holds exactly one entry per part
\* enumerated so far, in enumeration order, linked or not, and its rows and
\* bytes counters are the sums over those parts; every part step appends one
\* entry and adds the part's rows and bytes whatever the resolver answered.
C15_OneEntryPerPartAndTotals ==
    /\ [](pc \in {"db_loop", "table_loop", "part_loop", "mark_end"} =>
             /\ EntryKeys(backup_meta) = EnumeratedSoFar
             /\ backup_meta.rows = SumRows(backup_meta.parts)
             /\ backup_meta.bytes = SumBytes(backup_meta.parts))
    /\ [][ PartStepTaken =>
              /\ Len(backup_meta'.parts) = Len(backup_meta.parts) + 1
              /\ NewEntry.name = parts_rows[partIdx].name
              /\ backup_meta'.rows = backup_meta.rows + parts_rows[partIdx].rows
              /\ backup_meta'.bytes = backup_meta.bytes + parts_rows[partIdx].bytes ]_vars

\* A run ended its loops with linked and transferred parts both counted.
C15_Witness ==
    /\ pc = "mark_end"
    /\ Len(backup_meta.parts) = 3
    /\ \E i \in 1..3 : backup_meta.parts[i].link # NoLink
    /\ \E i \in 1..3 : backup_meta.parts[i].link = NoLink
    /\ backup_meta.rows = SumRows(backup_meta.parts)
    /\ backup_meta.rows >= 5

\* The candidate's entry for the part, when the candidate has one.
CandidateEntry(bm, p) == get_part_contents(bm, p.database, p.table, p.name)

\* The later run of the scenario: the only candidate loaded is a backup made
\* without deduplication sources, holding the part with its files in storage.
LaterRunStep ==
    /\ PartStepTaken
    /\ Len(existing_backups) = 1
    /\ \A i \in 1..Len(existing_backups[1].parts) : existing_backups[1].parts[i].link = NoLink
    /\ HasPart(existing_backups[1], parts_rows[partIdx].database, parts_rows[partIdx].table,
               parts_rows[partIdx].name)
    /\ _check_part_availability(CandidateEntry(existing_backups[1], parts_rows[partIdx]))

Unchanged(e, p) == e.checksum = p.checksum /\ e.size = p.size /\ e.files = p.files

Transferred(p) ==
    /\ savedParts' = Append(savedParts, <<p.database, p.table, p.name>>)
    /\ \E t \in outstanding' \ outstanding : t.key = <<p.database, p.table, p.name>>

NotTransferred == savedParts' = savedParts /\ outstanding' = outstanding

\* C16 as claimed: the link of an unchanged part is the first backup's name.
C16_Original ==
    [][ LaterRunStep =>
          LET p == parts_rows[partIdx]
              e == CandidateEntry(existing_backups[1], p)
          IN  Unchanged(e, p) => NewEntry.link = existing_backups[1].name ]_vars

\* C16 amended: a run that loaded no candidate transfers every part and links
\* none; in the later run an unchanged part gets as link the first backup's
\* path (the path root joined with its name) and is not transferred, and a part
\* whose checksum changed is transferred and gets no link.
C16_TwoRunScenario ==
    /\ [][ (PartStepTaken /\ existing_backups = <<>>) =>
              /\ NewEntry.link = NoLink
              /\ Transferred(parts_rows[partIdx]) ]_vars
    /\ [][ LaterRunStep =>
              LET p == parts_rows[partIdx]
                  e == CandidateEntry(existing_backups[1], p)
              IN  /\ Unchanged(e, p) =>
                        /\ NewEntry.link = existing_backups[1].path
                        /\ NewEntry.link = BackupPath(existing_backups[1].name)
                        /\ NewEntry.paths = e.paths
                        /\ NotTransferred
                  /\ e.checksum # p.checksum =>
                        /\ NewEntry.link = NoLink
                        /\ Transferred(p) ]_vars

\* The second run linked p1 to the first backup and transferred the changed p2.
C16_Witness ==
    /\ runs = 2
    /\ pc = "part_loop"
    /\ tblIdx = 1
    /\ partIdx = 3
    /\ Len(existing_backups) = 1
    /\ backup_meta.parts[1].link = BackupPath(1)
    /\ backup_meta.parts[2].link = NoLink
    /\ backup_meta.parts[2].checksum = "def"
    /\ CandidateEntry(existing_backups[1], parts_rows[2]).checksum = "abc"
    /\ savedParts = << <<"db1", "t1", "p2">> >>

\* Candidates whose entry for the part matches it and is no link, and some of
\* whose files are missing from storage.
BrokenCandidates(p) ==
    { i \in 1..Len(existing_backups) :
        /\ HasPart(existing_backups[i], p.database, p.table, p.name)
        /\ LET e == CandidateEntry(existing_backups[i], p)
           IN  /\ e.link = NoLink
               /\ Unchanged(e, p)
               /\ ~_check_part_availability(e) }

MinOf(S) == CHOOSE i \in S : \A j \in S : i <= j

\* C17: a part step that meets a matching candidate with missing files ends like
\* any other: the run does not fail, one entry is appended, and the part is
\* linked to the first candidate in scan order that passes every check, older
\* than the broken one or not, or is transferred fresh when none passes.
C17_MissingFilesIsCacheMiss ==
    [][ (PartStepTaken /\ BrokenCandidates(parts_rows[partIdx]) # {}) =>
          LET p == parts_rows[partIdx]
          IN  /\ pc' = "part_loop"
              /\ failedAt' = failedAt
              /\ Len(backup_meta'.parts) = Len(backup_meta.parts) + 1
              /\ EligibleCandidates(p) # {} =>
                    /\ NewEntry.link = existing_backups[MinOf(EligibleCandidates(p))].path
                    /\ NotTransferred
              /\ EligibleCandidates(p) = {} =>
                    /\ NewEntry.link = NoLink
                    /\ Transferred(p) ]_vars

\* The newest matching candidate had lost a file and the part was linked to an
\* older candidate.
C17_Witness ==
    /\ pc = "part_loop"
    /\ partIdx > 1
    /\ LET p == parts_rows[partIdx - 1]
       IN  /\ 1 \in BrokenCandidates(p)
           /\ EligibleCandidates(p) # {}
           /\ backup_meta.parts[Len(backup_meta.parts)].link
                = existing_backups[MinOf(EligibleCandidates(p))].path
           /\ MinOf(EligibleCandidates(p)) > 1

\* Names whose persisted document does not decode.
MalformedNames == { n \in DOMAIN metaStore : ~metaStore[n].valid }

\* C18: show() of a malformed document raises; a run with deduplication enabled
\* cannot start its work while a malformed document is among the existing
\* backups, and a run ended by the decode error has created no metadata, begun
\* no database, called save_part_data for no part, submitted no transfer and
\* stored nothing under its name; nothing of this changes afterwards.
C18_MalformedDocumentIsFatal ==
    /\ [](\A n \in DOMAIN metaStore : show(n).raised <=> n \in MalformedNames)
    /\ [](failedAt = "load_existing_backups" =>
             /\ pc = "failed"
             /\ backup_meta = EmptyMeta
             /\ dbIdx = 1
             /\ tables = <<>>
             /\ savedParts = <<>>
             /\ outstanding = {}
             /\ \A o \in objects : o[1] # runs
             /\ runs \notin DOMAIN metaStore)
    /\ [][ (Idle /\ deduplicate_parts /\ MalformedNames # {} /\ runs' = runs + 1) =>
              /\ pc' = "failed"
              /\ failedAt' = "load_existing_backups"
              /\ objects' = objects
              /\ shadow' = shadow
              /\ metaStore' = metaStore ]_vars
    /\ [][ (failedAt = "load_existing_backups" /\ runs' = runs) =>
              /\ backup_meta' = backup_meta
              /\ objects' \subseteq objects
              /\ outstanding' = outstanding
              /\ pc' = pc ]_vars

\* A run with deduplication enabled met a malformed document and ended.
C18_Witness ==
    /\ failedAt = "load_existing_backups"
    /\ pc = "failed"
    /\ deduplicate_parts
    /\ MalformedNames # {}
    /\ \E n \in MalformedNames : show(n).raised
    /\ runs >= 2

\* C19: work is handed to the executor only for a job id that is not in the
\* registry; a submit whose id is in the registry raises and leaves the
\* executor's futures and the registry as they were; the ids in the registry
\* are pairwise different.
C19_DuplicateSubmitRejected ==
    /\ [](\A f, g \in DOMAIN future_to_job :
             future_to_job[f].id_ = future_to_job[g].id_ => f = g)
    /\ [][ Len(futures') > Len(futures) =>
              /\ lastSubmit'.id_ \notin RegisteredIds
              /\ ~lastSubmit'.raised
              /\ \A f \in DOMAIN future_to_job : future_to_job'[f] = future_to_job[f] ]_vars
    /\ [][ (lastSubmit' # lastSubmit /\ lastSubmit'.raised) =>
              /\ lastSubmit'.id_ \in RegisteredIds
              /\ futures' = futures
              /\ future_to_job' = future_to_job ]_vars

\* A submit raised on the id of a job still in the registry although the pool
\* could take more work.
C19_Witness ==
    /\ lastSubmit.raised
    /\ lastSubmit.id_ \in RegisteredIds
    /\ Len(futures) = 2
    /\ Cardinality(DOMAIN future_to_job) = 2

\* Futures of the batch whose work returned.
Succeeded(batch) == { f \in batch : futures[f] = "ok" }

Crashed(batch) == { f \in batch : futures[f] = "failed" }

\* C20: a collecting call with keep_going never ends by raising a job's
\* exception; when it returns, every job of its batch has been handled, and
\* as_completed has yielded one result per job that succeeded and none for a
\* job that failed: N - k results for a batch of N jobs of which k failed.
C20_KeepGoingYieldsSuccesses ==
    /\ [](collect.kind = "as_completed" =>
             /\ \A i, j \in 1..Len(results) : results[i] = results[j] => i = j
             /\ SeqToSet(results) = Succeeded(collect.seen))
    /\ [][ (collect.kind # "none" /\ collect.keep_going /\ collect'.kind = "none") =>
              /\ outcome' \in {"returned", "timeout", "stopped"}
              /\ outcome' = "returned" =>
                    /\ collect.seen = collect.batch
                    /\ Succeeded(collect.batch) \cup Crashed(collect.batch) = collect.batch
                    /\ results' = results
                    /\ collect.kind = "as_completed" =>
                          /\ SeqToSet(results) = Succeeded(collect.batch)
                          /\ Len(results) = Cardinality(collect.batch)
                                               - Cardinality(Crashed(collect.batch)) ]_vars

\* as_completed with keep_going has handled a batch of three jobs of which one
\* failed, and has yielded two results.
C20_Witness ==
    /\ collect.kind = "as_completed"
    /\ collect.keep_going
    /\ Cardinality(collect.batch) = 3
    /\ collect.seen = collect.batch
    /\ Cardinality(Crashed(collect.batch)) = 1
    /\ Len(results) = 2

\* The jobs of the batch that the collecting call has not handled.
Unhandled == collect.batch \ collect.seen

\* C21 as claimed: when a collecting call without keep_going ends by raising a
\* job's error, every other job of its batch has been handled.
C21_Original ==
    [][ (collect.kind # "none" /\ ~collect.keep_going /\ outcome' = "raised"
            /\ collect'.kind = "none") =>
              \E f \in Unhandled : Unhandled = {f} ]_vars

\* C21: without keep_going the collecting call never passes over a failed
\* job: the first failed job it meets ends the call by raising, at once. The
\* jobs of the batch it had not handled yet are not drained: they stay as they
\* are, running or finished, and stay in the registry with the failed job; the
\* results yielded and the callbacks run so far are what the caller has.
C21_FirstFailureRaisesAtOnce ==
    /\ [](collect.kind # "none" /\ ~collect.keep_going =>
             \A f \in collect.seen : futures[f] = "ok")
    /\ [][ (collect.kind # "none" /\ ~collect.keep_going /\ collect'.kind = "none"
              /\ Crashed(Unhandled) # {}) =>
              /\ outcome' \in {"raised", "timeout", "stopped"}
              /\ future_to_job' = future_to_job ]_vars
    /\ [][ (collect.kind # "none" /\ outcome' = "raised" /\ collect'.kind = "none") =>
              /\ ~collect.keep_going
              /\ Crashed(Unhandled) # {}
              /\ futures' = futures
              /\ future_to_job' = future_to_job
              /\ results' = results
              /\ callbacks' = callbacks ]_vars

\* A collecting call without keep_going has raised the error of one job of a
\* batch of three; of the other two, still in the registry and never handled,
\* one is running and one has succeeded.
C21_Witness ==
    /\ outcome = "raised"
    /\ collects = 1
    /\ callbacks = <<>>
    /\ results = <<>>
    /\ DOMAIN future_to_job = {1, 2, 3}
    /\ Cardinality(Crashed({1, 2, 3})) = 1
    /\ Cardinality(Succeeded({1, 2, 3})) = 1
    /\ future_to_job[CHOOSE f \in {1, 2, 3} : futures[f] = "ok"].callback

\* The number of times the callback of the job of future f has run.
CallbackRuns(f) == Cardinality({ i \in 1..Len(callbacks) : callbacks[i] = f })

\* The jobs that the step of a collecting call handles.
HandledByStep == IF collect.kind # "none" THEN collect'.seen \ collect.seen ELSE {}

C23_PoolReusableAcrossBatches ==
    /\ [](collect.kind # "none" =>
             /\ collect.seen \subseteq collect.batch
             /\ SeqToSet(results) \subseteq collect.batch)
    /\ [][ (collect.kind # "none" /\ collect'.kind = "none" /\ outcome' = "returned") =>
              future_to_job' = <<>> ]_vars
    /\ [][ (collect.kind = "none" /\ collect'.kind # "none") =>
              collect'.batch = DOMAIN future_to_job ]_vars
    /\ [][ (lastSubmit' # lastSubmit /\ lastSubmit'.raised) =>
              lastSubmit'.id_ \in RegisteredIds ]_vars
    /\ [][ \A f \in 1..Len(futures) :
              f \notin DOMAIN future_to_job => f \notin DOMAIN future_to_job' ]_vars

\* The first job was drained by a first collecting call; a second job was then
\* accepted under the same id, and a second call, as_completed, has yielded
\* the result of the second job only.
C23_Witness ==
    /\ Len(futures) = 2
    /\ lastSubmit = [id_ |-> JobIdSeq[1], raised |-> FALSE]
    /\ collects = 2
    /\ collect.kind = "as_completed"
    /\ collect.batch = {2}
    /\ results = <<2>>

\* C24: a timeout ends the collecting call and nothing else: the jobs and the
\* registry are as before, with a job of the batch still running. No step
\* cancels a job: a submitted job stays, and a running job changes only by
\* finishing. The next collecting call takes the whole registry as its batch,
\* and a collecting call returns only when it has handled its whole batch.
C24_TimeoutCancelsNothing ==
    /\ [][ (collect.kind # "none" /\ outcome' = "timeout" /\ collect'.kind = "none") =>
              /\ futures' = futures
              /\ future_to_job' = future_to_job
              /\ \E f \in Unhandled : futures[f] = "running" /\ f \in DOMAIN future_to_job'
         ]_vars
    /\ [][ /\ Len(futures') >= Len(futures)
           /\ \A f \in 1..Len(futures) :
                 \/ futures'[f] = futures[f]
                 \/ futures[f] = "running" /\ futures'[f] \in {"ok", "failed"} ]_vars
    /\ [][ (collect.kind = "none" /\ collect'.kind # "none") =>
              /\ collect'.batch = DOMAIN future_to_job
              /\ collect'.seen = {} ]_vars
    /\ [][ (collect.kind # "none" /\ collect'.kind = "none" /\ outcome' = "returned") =>
              /\ collect.seen = collect.batch
              /\ \A f \in collect.batch : futures[f] # "running" ]_vars

\* A first collecting call ran the callback of the first job and timed out
\* with the other two jobs running; all three jobs have succeeded since, and
\* the second call has handled all of them.
C24_Witness ==
    /\ collects = 2
    /\ collect.kind # "none"
    /\ collect.batch = {1, 2, 3}
    /\ collect.seen = collect.batch
    /\ Succeeded(collect.batch) = collect.batch
    /\ future_to_job[1].callback /\ ~future_to_job[2].callback /\ future_to_job[3].callback
    /\ CallbackRuns(1) = 2
    /\ CallbackRuns(3) = 1

\* C25: leaving the with statement, normally or by an exception of the body,
\* calls shutdown(graceful=True) once; when that call raises, its error goes no
\* further, and when it returns the executor is down and no job is running;
\* what leaves the with statement is the body's exception, if it raised one,
\* and nothing otherwise.
C25_ScopeExitShutsDown ==
    /\ [][ (scope = "leaving" /\ scope' # scope) =>
              /\ scope' = "exited"
              /\ Len(shutdowns') = Len(shutdowns) + 1
              /\ shutdowns'[Len(shutdowns')].graceful
              /\ ~shutdowns'[Len(shutdowns')].raised =>
                     /\ executor_down'
                     /\ \A f \in 1..Len(futures') : futures'[f] # "running"
              /\ propagated' = IF body_exc THEN "body" ELSE "none" ]_vars
    /\ [](scope = "exited" =>
             /\ Len(shutdowns) = 1
             /\ propagated # "shutdown"
             /\ propagated = "body" <=> body_exc)

\* The body raised while a job was running, shutdown raised too, and only the
\* body's exception has left the with statement.
C25_Witness ==
    /\ scope = "exited"
    /\ body_exc
    /\ shutdowns = <<[graceful |-> TRUE, raised |-> TRUE]>>
    /\ propagated = "body"
    /\ \E f \in 1..Len(futures) : futures[f] = "running"

\* The parts that the object store has received for an upload, as the pairs
\* that the engine should have recorded for them.
ReceivedPairs(upload_id) ==
    [i \in 1..Len(s3.parts[upload_id]) |->
        [ETag |-> ETag(s3.parts[upload_id][i].Body),
         PartNumber |-> s3.parts[upload_id][i].PartNumber]]

\* C26: the parts recorded in a session are numbered 1..n in the order in
\* which they were uploaded, each with the tag the object store gave for it,
\* whatever calls failed in between; a part is sent under the number after the
\* last recorded one; and complete_multipart_upload sends the recorded pairs,
\* all of them and in that order.
C26_PartsNumberedContiguously ==
    /\ [](\A upload_id \in DOMAIN _multipart_uploads :
             LET Parts == _multipart_uploads[upload_id].Parts
             IN  /\ \A i \in 1..Len(Parts) : Parts[i].PartNumber = i
                 /\ Parts = ReceivedPairs(upload_id))
    /\ [](\A upload_id \in DOMAIN s3.completed :
             /\ s3.completed[upload_id] = ReceivedPairs(upload_id)
             /\ \A i \in 1..Len(s3.completed[upload_id]) :
                    s3.completed[upload_id][i].PartNumber = i)
    /\ [][ \A upload_id \in DOMAIN _multipart_uploads :
              /\ (s3ops' # s3ops /\ s3op'.op = "upload_part" /\ s3op'.calls = 1
                     /\ s3op'.id = upload_id) =>
                    s3op'.data = Len(_multipart_uploads[upload_id].Parts) + 1
              /\ (s3ops' # s3ops /\ s3op'.op = "complete_multipart_upload"
                     /\ upload_id \notin DOMAIN _multipart_uploads') =>
                    s3op'.sent = <<_multipart_uploads[upload_id].Parts>> ]_vars

\* Two parts were uploaded, the second with the content that has the smaller
\* tag, and the upload was completed with the two pairs in that order.
C26_Witness ==
    /\ 1 \in DOMAIN s3.completed
    /\ s3.completed[1] = <<[ETag |-> ETag(2), PartNumber |-> 1],
                           [ETag |-> ETag(1), PartNumber |-> 2]>>
    /\ s3op.op = "complete_multipart_upload"
    /\ s3op.raised = "none"
    /\ s3ops = MaxS3Ops

\* The step is a multipart operation of the given name.
MultipartStep(op) == s3ops' # s3ops /\ s3op'.op = op

\* The step is a call of the given operation with an id that has no session:
\* it raises KeyError before any call of the client and changes no session.
RefusedStep(op, id) ==
    (MultipartStep(op) /\ s3op'.id = id) =>
        /\ s3op'.raised = "KeyError"
        /\ s3op'.calls = 0
        /\ UNCHANGED <<_multipart_uploads, _multipart_downloads, s3>>

\* C27: an upload that the object store has completed has no session any
\* more, and its record never changes again; a completion that the client
\* refused leaves every session as it was; a call of upload_part,
\* complete_multipart_upload, download_part or complete_multipart_download
\* with an id that has no session raises KeyError and changes nothing; and a
\* complete_multipart_download that succeeds deletes the session it closed.
C27_CompletedSessionIsGone ==
    /\ [](DOMAIN s3.completed \cap DOMAIN _multipart_uploads = {})
    /\ [][ \A upload_id \in DOMAIN s3.completed :
              /\ upload_id \in DOMAIN s3.completed'
              /\ s3.completed'[upload_id] = s3.completed[upload_id]
              /\ s3.parts'[upload_id] = s3.parts[upload_id] ]_vars
    /\ [][ \A upload_id \in UploadIds \ DOMAIN _multipart_uploads :
              /\ RefusedStep("upload_part", upload_id)
              /\ RefusedStep("complete_multipart_upload", upload_id) ]_vars
    /\ [][ \A download_id \in DownloadIds \ DOMAIN _multipart_downloads :
              /\ RefusedStep("download_part", download_id)
              /\ RefusedStep("complete_multipart_download", download_id) ]_vars
    /\ [][ (MultipartStep("complete_multipart_upload") /\ s3op'.raised = "ClientError") =>
              UNCHANGED <<_multipart_uploads, s3>> ]_vars
    /\ [][ (MultipartStep("complete_multipart_upload") /\ s3op'.raised = "none") =>
              \E upload_id \in DOMAIN _multipart_uploads :
                  /\ DOMAIN _multipart_uploads' = DOMAIN _multipart_uploads \ {upload_id}
                  /\ DOMAIN s3.completed' = DOMAIN s3.completed \cup {upload_id} ]_vars
    /\ [][ \A download_id \in DOMAIN _multipart_downloads :
              (MultipartStep("complete_multipart_download")
                  /\ s3op'.id = download_id) =>
                 \/ /\ s3op'.raised = "none"
                    /\ DOMAIN _multipart_downloads' =
                           DOMAIN _multipart_downloads \ {download_id}
                 \/ /\ s3op'.raised = "ClientError"
                    /\ _multipart_downloads' = _multipart_downloads ]_vars

\* The first upload was completed after a completion that the client had
\* refused, and a later upload_part with its id has raised KeyError.
C27_Witness ==
    /\ 1 \in DOMAIN s3.completed
    /\ Len(s3.completed[1]) = 1
    /\ s3ops = MaxS3Ops
    /\ s3.created = 1
    /\ _multipart_downloads = <<>>
    /\ s3op.op = "upload_part"
    /\ s3op.raised = "KeyError"
    /\ s3op.id = 1

\* The keys of a list of remote paths.
KeysOf(remote_paths) == [i \in 1..Len(remote_paths) |-> lstrip(remote_paths[i])]

RetriedBefore(i) ==
    \A j \in 1..(i - 1) :
        /\ retry_state.outcomes[j] # "ok"
        /\ isinstance(retry_state.outcomes[j], retry_state.exception_types)

\* C29: a wrapped call makes at most max_attempts invocations; every
\* invocation but the last raised an exception of the configured types; the
\* call returns with the first invocation that succeeds; it raises the
\* exception of its last invocation, which is either not of the configured
\* types or that of the last allowed attempt; an exception of another type in
\* the first invocation is raised after that one invocation.
C29_RetryIsBounded ==
    LET n == Len(retry_state.outcomes)
    IN  /\ n <= retry_state.max_attempts
        /\ RetriedBefore(n)
        /\ retry_state.status = "running" => RetriedBefore(n + 1)
        /\ retry_state.status = "returned" => n >= 1 /\ retry_state.outcomes[n] = "ok"
        /\ retry_state.status = "raised" =>
               /\ n >= 1
               /\ retry_state.raised = n
               /\ retry_state.outcomes[n] # "ok"
               /\ isinstance(retry_state.outcomes[n], retry_state.exception_types) =>
                      n = retry_state.max_attempts
        /\ (n >= 1 /\ retry_state.outcomes[1] # "ok"
              /\ ~isinstance(retry_state.outcomes[1], retry_state.exception_types)) =>
               n = 1 /\ retry_state.status = "raised"

\* A call wrapped by retry(OSError) has raised the FileNotFoundError of its
\* fifth invocation, after four invocations that raised OSErrors.
C29_Witness ==
    /\ retry_state.exception_types = {"OSError"}
    /\ retry_state.max_attempts = max_attempts
    /\ retry_state.status = "raised"
    /\ Len(retry_state.outcomes) = max_attempts
    /\ retry_state.outcomes[max_attempts] = "FileNotFoundError"
    /\ retry_state.raised = max_attempts

C35_FalsyLengthReadsDefault ==
    (s3op.op = "download_part" /\ s3op.raised = "none" /\ s3op.args # <<>>) =>
        (s3op.args[1] \in {NoneLen, 0} => s3op.data <= DEFAULT_DOWNLOAD_PART_LEN)

\* C38: an upload_part whose client call raises leaves the sessions and the
\* object store as they were; the upload_part that follows it on the same
\* session sends the same part number; the recorded parts of every session
\* are numbered 1..n; and an upload_part with an id that has no session
\* raises KeyError without a call of the client.
C38_FailedPartLeavesSession ==
    /\ [][ (MultipartStep("upload_part") /\ s3op'.raised = "ClientError") =>
              /\ UNCHANGED <<_multipart_uploads, _multipart_downloads, s3>>
              /\ s3op'.calls = 1
              /\ s3op'.data = Len(_multipart_uploads[s3op'.id].Parts) + 1 ]_vars
    /\ [][ (s3op.op = "upload_part" /\ s3op.raised = "ClientError"
              /\ MultipartStep("upload_part") /\ s3op'.calls = 1
              /\ s3op'.id = s3op.id) =>
              s3op'.data = s3op.data ]_vars
    /\ [](\A upload_id \in DOMAIN _multipart_uploads :
             \A i \in 1..Len(_multipart_uploads[upload_id].Parts) :
                 _multipart_uploads[upload_id].Parts[i].PartNumber = i)
    /\ [][ (MultipartStep("upload_part")
              /\ s3op'.id \notin DOMAIN _multipart_uploads) =>
              /\ s3op'.raised = "KeyError"
              /\ s3op'.calls = 0
              /\ UNCHANGED <<_multipart_uploads, _multipart_downloads, s3>> ]_vars

\* Two parts are recorded in a session, and an upload_part of a third has
\* raised the client's error: the session still has its two parts.
C38_Witness ==
    /\ s3op.op = "upload_part"
    /\ s3op.raised = "ClientError"
    /\ s3op.data = 3
    /\ Len(_multipart_uploads[s3op.id].Parts) = 2
    /\ Len(s3.parts[s3op.id]) = 2

\* C36: a collecting call that ends in any way but by exhausting its batch -
\* by a job's error, by a timeout, or because the consumer of as_completed
\* stopped - leaves the registry, and so the ids that submit refuses, as they
\* were; the registry loses jobs only when a call returns; and the next
\* call takes the whole registry, the jobs already collected included, as its
\* batch.
C36_RegistryClearedOnlyOnExhaustion ==
    /\ [][ (collect.kind # "none" /\ collect'.kind = "none" /\ outcome' # "returned") =>
              /\ outcome' \in {"raised", "timeout", "stopped"}
              /\ future_to_job' = future_to_job
              /\ collect.seen \subseteq DOMAIN future_to_job' ]_vars
    /\ [][ (DOMAIN future_to_job \ DOMAIN future_to_job' # {}) =>
              /\ collect.kind # "none"
              /\ collect.seen = collect.batch
              /\ outcome' = "returned" ]_vars
    /\ [][ (collect.kind = "none" /\ collect'.kind # "none") =>
              collect'.batch = DOMAIN future_to_job ]_vars
    /\ [](outcome \in {"raised", "timeout", "stopped"} =>
             \A f \in DOMAIN future_to_job :
                 CallbackRuns(f) > 0 => future_to_job[f].id_ \in RegisteredIds)

\* The first job was collected by a first call that did not exhaust its batch
\* and again by a second call, as_completed, whose consumer then stopped: the
\* job is still in the registry.
C36_Witness ==
    /\ outcome = "stopped"
    /\ collects = 2
    /\ results = <<1>>
    /\ CallbackRuns(1) = 2
    /\ 1 \in DOMAIN future_to_job

\* C37: a job leaves the registry only after the collecting call has handled
\* it, the jobs submitted while the call was in progress included.
C37_HandledBeforeRemoved ==
    [][ \A f \in DOMAIN future_to_job \ DOMAIN future_to_job' : f \in collect.seen ]_vars

\* The step just taken is backup()'s first: a run starts and gets past the
\* loading of the existing backups.
RunStarts == Idle /\ pc' = "db_loop"

\* The backups that have a metadata document and ended after the limit.
NewerThan(limit) == { n \in DOMAIN metaStore : metaStore[n].end_time > limit }

\* C32: with deduplication enabled, the candidate list a run loads holds exactly
\* the backups that have a metadata document and whose end_time is strictly
\* greater than now minus deduplication_age_limit, each once, in order of
\* non-increasing end_time; and no part is linked to a backup whose end_time is
\* equal to or before that limit.
C32_CandidatesAreTheFreshBackups ==
    /\ [][ (RunStarts /\ deduplicate_parts) =>
              LET limit == now - DedupAgeLimit
              IN  /\ Len(existing_backups') = Cardinality(NewerThan(limit))
                  /\ { existing_backups'[i] : i \in 1..Len(existing_backups') }
                        = { metaStore[n] : n \in NewerThan(limit) }
                  /\ \A i \in 1..(Len(existing_backups') - 1) :
                        existing_backups'[i].end_time >= existing_backups'[i + 1].end_time
          ]_vars
    /\ [][ (PartStepTaken /\ NewEntry.link # NoLink) =>
              \A n \in DOMAIN metaStore :
                  metaStore[n].path = NewEntry.link =>
                      metaStore[n].end_time > backup_meta.start_time - DedupAgeLimit ]_vars

\* A run loaded two candidates and left out a backup that has a metadata
\* document and ended exactly at the limit.
C32_Witness ==
    /\ pc = "db_loop"
    /\ dbIdx = 1
    /\ deduplicate_parts
    /\ Len(existing_backups) >= 1
    /\ \E n \in DOMAIN metaStore :
          /\ metaStore[n].end_time = now - DedupAgeLimit
          /\ \A i \in 1..Len(existing_backups) : existing_backups[i].name # n

\* A backup run is between its start and the saving of its metadata.
Running == pc \in {"db_loop", "table_loop", "part_loop", "mark_end"}

\* C39: with deduplication disabled a run loads no existing backup, every part
\* it enumerates is handed to save_part_data and gets an entry without a link,
\* and the entries of the run's document are the transferred parts, in order,
\* each once.
C39_NoDeduplicationTransfersAll ==
    /\ [][ (RunStarts /\ ~deduplicate_parts) => existing_backups' = <<>> ]_vars
    /\ [][ (PartStepTaken /\ ~deduplicate_parts) =>
              LET p == parts_rows[partIdx]
              IN  /\ NewEntry.link = NoLink
                  /\ savedParts' = Append(savedParts, <<p.database, p.table, p.name>>)
                  /\ NewEntry.paths = save_part_data(backup_meta.name, p) ]_vars
    /\ []((Running /\ ~deduplicate_parts) =>
              /\ existing_backups = <<>>
              /\ Len(savedParts) = Len(backup_meta.parts)
              /\ \A i \in 1..Len(backup_meta.parts) :
                    /\ backup_meta.parts[i].link = NoLink
                    /\ savedParts[i] = <<backup_meta.parts[i].database,
                                         backup_meta.parts[i].table,
                                         backup_meta.parts[i].name>>
              /\ \A i, j \in 1..Len(savedParts) : savedParts[i] = savedParts[j] => i = j)

\* A run without deduplication transferred all three parts although an earlier
\* backup holds the same parts, unchanged and in storage.
C39_Witness ==
    /\ pc = "mark_end"
    /\ ~deduplicate_parts
    /\ Len(savedParts) = 3
    /\ \E n \in DOMAIN metaStore :
          /\ metaStore[n].valid
          /\ metaStore[n].end_time > now - DedupAgeLimit
          /\ \A i \in 1..Len(backup_meta.parts) : Eligible(metaStore[n], backup_meta.parts[i])

\* The step just taken removed a snapshot from the staging area.
ShadowCleared == shadow \ shadow' # {}

\* C33: the freeze of a table leaves in the staging area the snapshot of that
\* table only (what was there is removed first); after the last database the
\* area is empty; and a snapshot is removed only when no transfer is outstanding
\* and every part the run has transferred so far is in storage.
C33_ShadowClearedBetweenTables ==
    /\ [][ (pc = "table_loop" /\ pc' = "part_loop") =>
              /\ shadow' = {CurrentTable}
              /\ outstanding = {} ]_vars
    /\ [](pc \in {"mark_end", "done"} => shadow = {})
    /\ [][ ShadowCleared =>
              /\ outstanding = {}
              /\ outstanding' = {}
              /\ pc \in {"table_loop", "db_loop"}
              /\ \A i \in 1..Len(backup_meta.parts) :
                    backup_meta.parts[i].link = NoLink =>
                        \A k \in 1..Len(backup_meta.parts[i].paths) :
                            backup_meta.parts[i].paths[k] \in objects ]_vars

\* The second table is frozen: the first table's snapshot is gone and its
\* transferred parts are stored.
C33_Witness ==
    /\ pc = "part_loop"
    /\ tblIdx = 2
    /\ shadow = {<<"db1", "t2">>}
    /\ Len(savedParts) >= 1
    /\ \A i \in 1..Len(savedParts) :
          PartFilePath(backup_meta.name, savedParts[i][1], savedParts[i][2],
                       savedParts[i][3], "f1") \in objects

\* The step just taken handed a job to the executor.
JobSubmitted == Len(futures') > Len(futures)

\* C34: the constructor returns only when the warm-up future is done; no job is
\* handed to the executor before that; the constructor leaves the registry
\* empty, and the warm-up future is never in the registry, in the batch of a
\* collecting call, among the results a call yields or among the callbacks run.
C34_WarmupBeforeJobs ==
    /\ [](init_pc = "returned" => warmup = "done")
    /\ [][ JobSubmitted => (init_pc = "returned" /\ warmup = "done") ]_vars
    /\ [](futures # <<>> => warmup = "done")
    /\ [][ init_pc' # init_pc =>
              /\ future_to_job' = <<>>
              /\ futures' = <<>> ]_vars
    /\ [](/\ WarmupFuture \notin DOMAIN future_to_job
          /\ WarmupFuture \notin collect.batch
          /\ \A i \in 1..Len(results) : results[i] # WarmupFuture
          /\ \A i \in 1..Len(callbacks) : callbacks[i] # WarmupFuture)

\* After the construction two jobs were submitted and a collecting call
\* yielded both.
C34_Witness ==
    /\ init_pc = "returned"
    /\ warmup = "done"
    /\ Len(futures) >= 2
    /\ Len(results) = 2
    /\ outcome = "returned"

\* The last call was load and it returned a part.
PartLoaded == loaded.op = "load" /\ loaded.raised = "none"

\* C31: a part loaded from a document has the document's checksum, bytes (as
\* size), files and link; a key that load does not know changes nothing; the
\* part's disk_name is "default" when the document has no disk_name or an empty
\* one, and the document's otherwise; its tarball is false when the document has
\* none; a part made from a frozen part has no link.
C31_LoadPreservesFields ==
    /\ PartLoaded =>
          /\ get_checksum(loaded.part) = raw_input["checksum"]
          /\ get_size(loaded.part) = raw_input["bytes"]
          /\ get_files(loaded.part) = raw_input["files"]
          /\ get_link(loaded.part) = raw_input["link"]
          /\ loaded = load(loaded.part.database, loaded.part.table, loaded.part.name,
                           Restrict(raw_input, KnownKeys))
          /\ disk_name(loaded.part) =
                IF "disk_name" \in DOMAIN raw_input /\ raw_input["disk_name"] # ""
                THEN raw_input["disk_name"] ELSE "default"
          /\ tarball(loaded.part) =
                IF "tarball" \in DOMAIN raw_input THEN raw_input["tarball"] ELSE FALSE
    /\ loaded.op = "from_frozen_part" =>
          /\ loaded.raised = "none"
          /\ get_link(loaded.part) = NoLink
          /\ get_checksum(loaded.part) = frozen_input.checksum
          /\ get_size(loaded.part) = frozen_input.size
          /\ get_files(loaded.part) = frozen_input.files
          /\ loaded.part.name = frozen_input.name

\* A document with a link, an empty disk_name, an unknown key and no tarball was
\* loaded.
C31_Witness ==
    /\ PartLoaded
    /\ raw_input["link"] = BackupPath(1)
    /\ "rows" \in DOMAIN raw_input
    /\ "tarball" \notin DOMAIN raw_input
    /\ "disk_name" \in DOMAIN raw_input
    /\ raw_input["disk_name"] = ""
    /\ disk_name(loaded.part) = "default"

\* The path of the last removal call is the shadow directory or the path of a
\* part that freeze_table returned.
OwnPath ==
    \/ ctl_op.op = "remove_freezed_data"
    \/ ctl_op.op = "remove_freezed_part" /\ \E part \in freezed_parts : part.path = ctl_op.path

====
